---- MODULE Spec2Model ----
(***************************************************************************)
(* Model of the request cache / rate limiter / retrying fetch wrapper      *)
(* (class APICache) and of the stock-detail assembly built on it.          *)
(*                                                                         *)
(* Time is Date.now() in milliseconds.  A fetchWithRetry call is an async  *)
(* function: it runs synchronously up to its first await, and is resumed   *)
(* when the awaited network response or backoff timer completes.  Each     *)
(* synchronous stretch is one action.                                      *)
(***************************************************************************)
EXTENDS Integers, Sequences, FiniteSets, TLC

VARIABLES
    now,         \* Date.now()
    cache,       \* APICache.cache : Map<url, {data, timestamp, ttl}>
    requestLog,  \* APICache.requestLog : Map<endpoint, number[]>
    calls,       \* the fetchWithRetry invocations (one record per call slot)
    window,      \* ghost: per pathname, admission times t with now - t < 60 s
    limitedAt,   \* ghost: per pathname, the time of the latest rejected call
    started,     \* ghost: number of fetchWithRetry calls made so far
    lastOp,      \* ghost: the latest direct get or set on the cache
    assembly,    \* the fetchStockData invocation
    pf,          \* the fetchPortfolioData invocation (portfolio summary)
    calc,        \* the latest application of a pure function: inputs and result
    userDoc,     \* the user document's portfolio and the handlers working on it
    page         \* the stock page: viewed symbol, displayed state, loads in flight

\* the variables fetchWithRetry neither reads nor writes
aux == <<lastOp, assembly, pf, calc, userDoc, page>>

vars == <<now, cache, requestLog, calls, window, limitedAt, started, aux>>

----------------------------------------------------------------------------
(* Program constants *)

WindowMs == 60000
MaxRequests == 30
DefaultTtl == 300000
BackoffUnitMs == 1000
DefaultMaxRetries == 3

(* Bounds of the model *)

MaxCalls == 2         \* calls made in one behaviour of Spec
MaxOtherCalls == 1    \* calls on the second pathname in one window of SpecRate

----------------------------------------------------------------------------
(* URLs.  A URL is its pathname and its query (here: the symbol). *)

Url(p, s) == [path |-> p, symbol |-> s]

QuoteA == Url("/api/v1/quote", "AAPL")
QuoteB == Url("/api/v1/quote", "TSLA")
ProfileA == Url("/api/v1/stock/profile2", "AAPL")

\* new URL(url).pathname
Endpoint(url) == url.path

----------------------------------------------------------------------------
(* JSON values a response body parses to.  JNull doubles as get()'s null. *)

JNull == "null"
JZero == "0"
Bodies == {JZero, "{v1}", "{v2}"}

\* JavaScript truthiness of a parsed body: null, 0, false and "" are falsy
Truthy(v) == v \notin {JNull, JZero, "false", ""}

----------------------------------------------------------------------------
(* Errors, by message.  status is 0 where the message carries none. *)

Err(t, s) == [text |-> t, status |-> s]

NoError == Err("", 0)
RateLimitedErr == Err("Rate limited. Please wait before making more requests.", 0)
ApiRateLimitErr == Err("API rate limit exceeded. Please wait a moment.", 0)
ServerErr(s) == Err("Server error: ", s)
HttpErr(s) == Err("HTTP error: ", s)
TransportErr == Err("Failed to fetch", 0)
AllFailedErr == Err("All retry attempts failed", 0)

\* response.ok
ResponseOk(status) == status >= 200 /\ status <= 299

\* the error thrown for a response that is not ok
ErrorForStatus(status) ==
    IF status = 429 THEN ApiRateLimitErr
    ELSE IF status >= 500 THEN ServerErr(status)
    ELSE HttpErr(status)

\* variants of NoRetry: one that forgets the 4xx test, one that matches any "HTTP error"
NoRetry_RateLimitOnly(e) == e.text = "API rate limit exceeded. Please wait a moment."
NoRetry_AnyHttp(e) ==
    \/ e.text = "API rate limit exceeded. Please wait a moment."
    \/ e.text = "HTTP error: "

\* error.message.includes('rate limit') || error.message.includes('HTTP error: 4')
\* (statuses have three digits, so the digit after "HTTP error: " is status \div 100)
NoRetry(e) ==
    \/ e.text = "API rate limit exceeded. Please wait a moment."
    \/ (e.text = "HTTP error: " /\ e.status \div 100 = 4)

RECURSIVE Pow2(_)
Pow2(n) == IF n = 0 THEN 1 ELSE 2 * Pow2(n - 1)

\* variant of BackoffMs: linear instead of exponential
BackoffMs_Linear(attempt) == (attempt + 1) * BackoffUnitMs

\* Math.pow(2, attempt) * 1000
BackoffMs(attempt) == Pow2(attempt) * BackoffUnitMs

----------------------------------------------------------------------------
(* Maps *)

MapSet(m, k, v) == [x \in DOMAIN m \cup {k} |-> IF x = k THEN v ELSE m[x]]
MapDelete(m, k) == [x \in DOMAIN m \ {k} |-> m[x]]
EmptyMap == [x \in {} |-> 0]

----------------------------------------------------------------------------
(* APICache.isRateLimited *)

\* variants: a window that still counts a timestamp exactly 60 s old; a limit
\* that admits one call too many
RecentLogs_Inclusive(logs, t) == SelectSeq(logs, LAMBDA ts : t - ts <= WindowMs)
OverLimit_OffByOne(recent) == Len(recent) > MaxRequests

\* logs.filter(ts => now - ts < windowMs)
RecentLogs(logs, t) == SelectSeq(logs, LAMBDA ts : t - ts < WindowMs)

\* recentLogs.length >= maxRequests
OverLimit(recent) == Len(recent) >= MaxRequests

\* this.requestLog.get(endpoint) || []
LogOf(log, endpoint) == IF endpoint \in DOMAIN log THEN log[endpoint] ELSE <<>>

\* the result of isRateLimited and the requestLog it leaves
IsRateLimited(log, endpoint, t) ==
    LET logs == LogOf(log, endpoint)
        recentLogs == RecentLogs(logs, t)
    IN  IF OverLimit(recentLogs)
        THEN [limited |-> TRUE, log |-> log]
        ELSE [limited |-> FALSE, log |-> MapSet(log, endpoint, Append(recentLogs, t))]

----------------------------------------------------------------------------
(* APICache.get / APICache.set *)

\* variant: an entry expires as soon as its age reaches the ttl
Expired_Inclusive(item, t) == t - item.timestamp >= item.ttl

\* Date.now() - item.timestamp > item.ttl
Expired(item, t) == t - item.timestamp > item.ttl

\* the value get returns and the cache it leaves (an expired entry is deleted)
CacheGet(c, key, t) ==
    IF key \notin DOMAIN c THEN [data |-> JNull, cache |-> c]
    ELSE IF Expired(c[key], t) THEN [data |-> JNull, cache |-> MapDelete(c, key)]
    ELSE [data |-> c[key].data, cache |-> c]

\* the ttl parameter: <<>> when the argument is omitted (undefined), else <<n>>
TtlOrDefault(ttl) == IF ttl = <<>> THEN DefaultTtl ELSE ttl[1]

\* variant of CacheSet: an entry already stored for the key is kept
CacheSet_KeepExisting(c, key, data, ttl, t) ==
    IF key \in DOMAIN c THEN c
    ELSE MapSet(c, key, [data |-> data, timestamp |-> t, ttl |-> TtlOrDefault(ttl)])

\* lines 232-238: this.cache.set(key, {data, timestamp, ttl})
CacheSet(c, key, data, ttl, t) ==
    MapSet(c, key, [data |-> data, timestamp |-> t, ttl |-> TtlOrDefault(ttl)])

\* ghost record of a direct cache operation; before is the cache it found
CacheOp(kind, key, data, ttl, at, before) ==
    [kind |-> kind, key |-> key, data |-> data, ttl |-> ttl, at |-> at,
     before |-> before]

NoOp == CacheOp("none", QuoteA, JNull, <<>>, 0, EmptyMap)

\* lines 220-230: get(key)
Get(key) ==
    /\ cache' = CacheGet(cache, key, now).cache
    /\ lastOp' = CacheOp("get", key, CacheGet(cache, key, now).data, <<>>, now, cache)
    /\ UNCHANGED <<now, requestLog, calls, window, limitedAt, started, assembly, pf, calc, userDoc, page>>

\* lines 232-238: set(key, data, ttl)
Set(key, data, ttl) ==
    /\ cache' = CacheSet(cache, key, data, ttl, now)
    /\ lastOp' = CacheOp("set", key, data, ttl, now, cache)
    /\ UNCHANGED <<now, requestLog, calls, window, limitedAt, started, assembly, pf, calc, userDoc, page>>

----------------------------------------------------------------------------
(* fetchWithRetry call slots *)

\* Ghost fields of a call (observations, never read by the program):
\*   netCalls   network fetches issued          delays    backoff delays requested
\*   outcomes   status of each settled attempt (0: the fetch or the parse rejected)
\*   lastBody   body of the last 2xx response   seen      ghost window size at the call
\*   logged     timestamps the call recorded    hit       served from the cache
\*   touched    the call changed the cache      hadFresh  an unexpired entry was cached
\*   freshData  that entry's value              resumedAt time the last backoff ended
\*   delayedFrom  time the last backoff began
IdleCall ==
    [pc |-> "idle", url |-> QuoteA, maxRetries |-> 0, ttl |-> <<>>,
     attempt |-> 0, lastError |-> NoError, result |-> JNull, wakeAt |-> 0,
     netCalls |-> 0, delays |-> <<>>, outcomes |-> <<>>, lastBody |-> JNull,
     seen |-> 0, logged |-> 0, hit |-> FALSE, touched |-> FALSE,
     hadFresh |-> FALSE, freshData |-> JNull, resumedAt |-> 0, delayedFrom |-> 0]

\* ghost: how many entries of a log equal t
CountOf(log, t) == Len(SelectSeq(log, LAMBDA ts : ts = t))

\* ghost window: admission times still within the trailing 60 seconds at time t
InWindow(times, t) == SelectSeq(times, LAMBDA ts : t - ts < 60000)

\* fetchStockData before it is called
IdleAssembly == [pc |-> "idle", symbol |-> "", error |-> "", detail |-> EmptyMap]

\* fetchPortfolioData before it is called: portfolio null, no saved stocks.
\* trace is a ghost: per fetched entry its index, the outcome of its fetches
\* and, where the labels were normalized, what normalization gave
IdlePortfolio ==
    [pc |-> "idle", items |-> <<>>, i |-> 1, processedHoldings |-> <<>>,
     watchlistStocks |-> <<>>, portfolio |-> [kind |-> "null"], savedStocks |-> <<>>,
     error |-> "", trace |-> <<>>]

\* no pure function applied yet
NoCalc == [fn |-> "none"]

\* the handlers that can work on the user document at the same time
OpSlots == {"o1", "o2"}

\* a portfolio handler before it is called
IdleOp == [pc |-> "idle"]

\* the user document holding the given portfolio, no handler running.
\* clock is a ghost: the number of steps taken on the document
DocOf(stored) == [portfolio |-> stored, ops |-> [o \in OpSlots |-> IdleOp], clock |-> 0]

\* the stock page before a symbol is viewed; loads is the sequence of
\* loadAllData invocations (a ghost numbering of them)
FreshPage ==
    [symbol |-> "", stockDetails |-> <<>>, analysis |-> <<>>, error |-> <<>>,
     loading |-> TRUE, loads |-> <<>>]

\* the program state a call's synchronous prefix reads and writes
Here == [cache |-> cache, requestLog |-> requestLog, calls |-> calls,
         window |-> window, limitedAt |-> limitedAt]

\* variant of Enter: the cache is consulted before the rate check, so a call
\* served from the cache records no timestamp and is never rate limited
Enter_CacheFirst(st, c, url, maxRetries, ttl, t) ==
    LET endpoint == Endpoint(url)
        cached == CacheGet(st.cache, url, t)
        rl == IsRateLimited(st.requestLog, endpoint, t)
        seenNow == IF url.path \in DOMAIN st.window THEN st.window[url.path] ELSE <<>>
        fresh == /\ url \in DOMAIN st.cache
                 /\ t - st.cache[url].timestamp <= st.cache[url].ttl
        base == [IdleCall EXCEPT !.url = url, !.maxRetries = maxRetries,
                    !.ttl = ttl, !.seen = Len(seenNow), !.hadFresh = fresh,
                    !.freshData = IF fresh THEN st.cache[url].data ELSE JNull,
                    !.touched = (cached.cache # st.cache)]
        logging == [base EXCEPT !.logged = 1]
    IN  IF Truthy(cached.data)
        THEN [st EXCEPT
                 !.calls = [st.calls EXCEPT ![c] =
                     [base EXCEPT !.pc = "returned", !.result = cached.data,
                                  !.hit = TRUE]]]
        ELSE IF rl.limited
        THEN [st EXCEPT
                 !.cache = cached.cache,
                 !.calls = [st.calls EXCEPT ![c] =
                     [base EXCEPT !.pc = "thrown", !.lastError = RateLimitedErr]],
                 !.limitedAt = MapSet(st.limitedAt, url.path, t)]
        ELSE [st EXCEPT
                 !.requestLog = rl.log,
                 !.window = MapSet(st.window, url.path, Append(seenNow, t)),
                 !.cache = cached.cache,
                 !.calls = [st.calls EXCEPT ![c] =
                     IF 0 < maxRetries
                     THEN [logging EXCEPT !.pc = "fetching", !.netCalls = 1]
                     ELSE [logging EXCEPT !.pc = "thrown",
                              !.lastError = AllFailedErr]]]

\* lines 240-256 run at time t in state st by the idle slot c: entry, rate
\* check, cache check, first fetch issued; the state they leave
Enter(st, c, url, maxRetries, ttl, t) ==
    LET endpoint == Endpoint(url)
        rl == IsRateLimited(st.requestLog, endpoint, t)
        cached == CacheGet(st.cache, url, t)
        seenNow == IF url.path \in DOMAIN st.window THEN st.window[url.path] ELSE <<>>
        fresh == /\ url \in DOMAIN st.cache
                 /\ t - st.cache[url].timestamp <= st.cache[url].ttl
        base == [IdleCall EXCEPT !.url = url, !.maxRetries = maxRetries,
                    !.ttl = ttl, !.seen = Len(seenNow),
                    !.logged = CountOf(LogOf(rl.log, endpoint), t)
                                 - CountOf(LogOf(st.requestLog, endpoint), t),
                    !.hadFresh = fresh,
                    !.freshData = IF fresh THEN st.cache[url].data ELSE JNull]
        entered == [base EXCEPT !.touched = (cached.cache # st.cache)]
    IN  IF rl.limited
        THEN [st EXCEPT
                 !.calls = [st.calls EXCEPT ![c] =
                     [base EXCEPT !.pc = "thrown", !.lastError = RateLimitedErr]],
                 !.requestLog = rl.log,
                 !.limitedAt = MapSet(st.limitedAt, url.path, t)]
        ELSE [st EXCEPT
                 !.requestLog = rl.log,
                 !.window = MapSet(st.window, url.path, Append(seenNow, t)),
                 !.cache = cached.cache,
                 !.calls = [st.calls EXCEPT ![c] =
                     IF Truthy(cached.data)
                     THEN [entered EXCEPT !.pc = "returned", !.result = cached.data,
                              !.hit = TRUE]
                     ELSE IF 0 < maxRetries
                     THEN [entered EXCEPT !.pc = "fetching", !.netCalls = 1]
                     ELSE [entered EXCEPT !.pc = "thrown",
                              !.lastError = AllFailedErr]]]

\* the program state becomes st
Becomes(st) ==
    /\ cache' = st.cache
    /\ requestLog' = st.requestLog
    /\ calls' = st.calls
    /\ window' = st.window
    /\ limitedAt' = st.limitedAt

\* a call of fetchWithRetry, up to its first await
FetchWithRetry(c, url, maxRetries, ttl) ==
    /\ calls[c].pc = "idle"
    /\ Becomes(Enter(Here, c, url, maxRetries, ttl, now))
    /\ UNCHANGED <<now, aux>>

\* what the catch block and the loop do once lastError is assigned
AfterCatch(caught, t) ==
    IF NoRetry(caught.lastError)
    THEN [caught EXCEPT !.pc = "thrown"]
    ELSE IF caught.attempt < caught.maxRetries - 1
    THEN [caught EXCEPT !.pc = "backoff",
             !.wakeAt = t + BackoffMs(caught.attempt),
             !.delayedFrom = t,
             !.delays = Append(caught.delays, BackoffMs(caught.attempt))]
    ELSE [caught EXCEPT !.pc = "thrown", !.attempt = caught.attempt + 1]

\* variant of Catch: keeps the first error instead of the last
Catch_KeepFirst(call, error, t) ==
    AfterCatch([call EXCEPT !.lastError =
                   IF call.lastError = NoError THEN error ELSE call.lastError], t)

\* the catch block, lines 271-282, and the loop exit, line 285
Catch(call, error, t) == AfterCatch([call EXCEPT !.lastError = error], t)

\* lines 256-270: the awaited fetch settles with a response whose body parses
Respond(c, status, body) ==
    /\ calls[c].pc = "fetching"
    /\ LET call == [calls[c] EXCEPT !.outcomes = Append(calls[c].outcomes, status)]
       IN  IF ResponseOk(status)
           THEN /\ cache' = CacheSet(cache, call.url, body, call.ttl, now)
                /\ calls' = [calls EXCEPT ![c] =
                       [call EXCEPT !.pc = "returned", !.result = body,
                           !.lastBody = body, !.touched = TRUE]]
           ELSE /\ calls' = [calls EXCEPT ![c] = Catch(call, ErrorForStatus(status), now)]
                /\ UNCHANGED cache
    /\ UNCHANGED <<now, requestLog, window, limitedAt, started, aux>>

\* line 256 / 268: fetch rejects (transport failure) or response.json() rejects
FetchFails(c) ==
    /\ calls[c].pc = "fetching"
    /\ calls' = [calls EXCEPT ![c] =
           Catch([calls[c] EXCEPT !.outcomes = Append(calls[c].outcomes, 0)],
                 TransportErr, now)]
    /\ UNCHANGED <<now, cache, requestLog, window, limitedAt, started, aux>>

\* line 280: the backoff timer fires; lines 254-256: the next attempt's fetch is issued
BackoffDone(c) ==
    /\ calls[c].pc = "backoff"
    /\ now >= calls[c].wakeAt
    /\ calls' = [calls EXCEPT ![c].pc = "fetching",
                                ![c].resumedAt = now,
                                ![c].attempt = calls[c].attempt + 1,
                                ![c].netCalls = calls[c].netCalls + 1]
    /\ UNCHANGED <<now, cache, requestLog, window, limitedAt, started, aux>>

\* the caller takes the settled promise; the slot is free for another call
Settle(c) ==
    /\ calls[c].pc \in {"returned", "thrown"}
    /\ calls' = [calls EXCEPT ![c] = IdleCall]
    /\ UNCHANGED <<now, cache, requestLog, window, limitedAt, started, aux>>

\* the clock advances to instant t
Tick(t) ==
    /\ t > now
    /\ now' = t
    /\ window' = [e \in DOMAIN window |-> InWindow(window[e], t)]
    /\ UNCHANGED <<cache, requestLog, calls, limitedAt, started, aux>>

----------------------------------------------------------------------------
(* Spec: a few calls one after another; every response kind, retries,      *)
(* backoff and cache expiry.                                               *)

Urls == {QuoteA, ProfileA}
Statuses == {200, 304, 404, 429, 500}
MaxRetriesArgs == {0, 1, DefaultMaxRetries, 4}
TtlArgs == {<<>>, <<600000>>}
Instants == {0, 1000, 3000, 300000, 300001}

\* the state after construction, with the given call slots and the given
\* portfolio stored in the user document
InitAt(slots, stored) ==
    /\ now = 0
    /\ cache = EmptyMap
    /\ requestLog = EmptyMap
    /\ calls = [c \in slots |-> IdleCall]
    /\ window = EmptyMap
    /\ limitedAt = EmptyMap
    /\ started = 0
    /\ lastOp = NoOp
    /\ assembly = IdleAssembly
    /\ pf = IdlePortfolio
    /\ calc = NoCalc
    /\ userDoc = DocOf(stored)
    /\ page = FreshPage

\* the state after construction, the user having no portfolio yet
InitWith(slots) == InitAt(slots, <<>>)

Init == InitWith({"c1"})

Call(c, url, maxRetries, ttl) ==
    /\ started < MaxCalls
    /\ started' = started + 1
    /\ FetchWithRetry(c, url, maxRetries, ttl)

Next ==
    \/ \E c \in DOMAIN calls, u \in Urls, r \in MaxRetriesArgs, t \in TtlArgs :
           Call(c, u, r, t)
    \/ \E c \in DOMAIN calls, s \in Statuses, b \in Bodies : Respond(c, s, b)
    \/ \E c \in DOMAIN calls : FetchFails(c)
    \/ \E c \in DOMAIN calls : BackoffDone(c)
    \/ \E c \in DOMAIN calls : Settle(c)
    \/ \E t \in Instants : Tick(t)

Spec == Init /\ [][Next]_vars

----------------------------------------------------------------------------
(* SpecRate: bursts of calls on one pathname, across the 60 s window *)

RateUrls == {QuoteA, QuoteB}
RateStatuses == {200, 404}
RateInstants == {0, 59999, 60000}

\* a call of the burst: one attempt, default ttl
BurstCall(c, url) ==
    /\ FetchWithRetry(c, url, 1, <<>>)
    /\ UNCHANGED started

\* a call on another pathname, made only a few times
OtherCall(c) ==
    /\ Len(LogOf(requestLog, ProfileA.path)) < MaxOtherCalls
    /\ FetchWithRetry(c, ProfileA, 1, <<>>)
    /\ UNCHANGED started

NextRate ==
    \/ \E c \in DOMAIN calls, u \in RateUrls : BurstCall(c, u)
    \/ \E c \in DOMAIN calls : OtherCall(c)
    \/ \E c \in DOMAIN calls, s \in RateStatuses : Respond(c, s, "{v1}")
    \/ \E c \in DOMAIN calls : Settle(c)
    \/ \E t \in RateInstants : Tick(t)

SpecRate == Init /\ [][NextRate]_vars

----------------------------------------------------------------------------
(* SpecCache: direct use of get and set under a controllable clock *)

CacheKeys == {QuoteA, QuoteB}
CacheValues == {JZero, "{v1}", "{v2}"}
CacheTtls == {<<>>, <<1000>>}
CacheInstants == {0, 1000, 1001, 300000, 300001}

NextCache ==
    \/ \E k \in CacheKeys : Get(k)
    \/ \E k \in CacheKeys, v \in CacheValues, t \in CacheTtls : Set(k, v, t)
    \/ \E t \in CacheInstants : Tick(t)

SpecCache == Init /\ [][NextCache]_vars

----------------------------------------------------------------------------
(* fetchStockData: the stock-detail assembly *)

AssemblySlots == {"quote", "profile", "metrics", "earnings", "financials"}

\* lines 649-653: the five URLs of a symbol
AssemblyUrl(slot, symbol) ==
    Url(CASE slot = "quote" -> "/api/v1/quote"
          [] slot = "profile" -> "/api/v1/stock/profile2"
          [] slot = "metrics" -> "/api/v1/stock/metric"
          [] slot = "earnings" -> "/api/v1/stock/earnings"
          [] slot = "financials" -> "/api/v1/stock/financials-reported",
        symbol)

\* bodies: null, a quote whose price field c is 0, a quote whose price is 150
\* (for the other four fetches any object)
ZeroQuote == "{c:0}"
GoodQuote == "{c:150}"

\* quoteData.c === 0
PriceIsZero(v) == v = ZeroQuote

\* reading a property of v throws a TypeError (v is null)
PropertyReadThrows(v) == v = JNull

\* lines 665-668: the value used for an optional fetch
ValueOrDefault(call, default) == IF call.pc = "returned" THEN call.result ELSE default

\* lines 643-654: the API key check, then the five fetchWithRetry calls are
\* made one after another (each runs to its first await) and awaited jointly
FetchStockData(symbol, hasKey) ==
    /\ assembly.pc = "idle"
    /\ IF ~hasKey
       THEN /\ assembly' = [IdleAssembly EXCEPT !.pc = "failed", !.symbol = symbol,
                               !.error = "Finnhub API key not configured"]
            /\ UNCHANGED <<cache, requestLog, calls, window, limitedAt>>
       ELSE LET s1 == Enter(Here, "quote", AssemblyUrl("quote", symbol),
                            DefaultMaxRetries, <<>>, now)
                s2 == Enter(s1, "profile", AssemblyUrl("profile", symbol),
                            DefaultMaxRetries, <<>>, now)
                s3 == Enter(s2, "metrics", AssemblyUrl("metrics", symbol),
                            DefaultMaxRetries, <<>>, now)
                s4 == Enter(s3, "earnings", AssemblyUrl("earnings", symbol),
                            DefaultMaxRetries, <<>>, now)
                s5 == Enter(s4, "financials", AssemblyUrl("financials", symbol),
                            DefaultMaxRetries, <<>>, now)
            IN  /\ Becomes(s5)
                /\ assembly' = [IdleAssembly EXCEPT !.pc = "awaiting", !.symbol = symbol]
    /\ UNCHANGED <<now, started, lastOp, pf, calc, userDoc, page>>

\* variant of AllFetchesSettled: settles as soon as the quote fetch has failed
\* (Promise.all instead of Promise.allSettled)
AllFetchesSettled_FailFast ==
    \/ calls["quote"].pc = "thrown"
    \/ \A c \in AssemblySlots : calls[c].pc \in {"returned", "thrown"}

\* line 648: Promise.allSettled resolves once every one of the five promises
\* has been fulfilled or rejected
AllFetchesSettled == \A c \in AssemblySlots : calls[c].pc \in {"returned", "thrown"}

\* lines 654-745: Promise.allSettled resolves once all five calls have settled;
\* the quote is checked, defaults are substituted, the record is built
AllSettled ==
    /\ assembly.pc = "awaiting"
    /\ AllFetchesSettled
    /\ LET quote == calls["quote"]
           profileData == ValueOrDefault(calls["profile"], "{}")
           metricsData == ValueOrDefault(calls["metrics"], "{metric:{}}")
           earningsData == ValueOrDefault(calls["earnings"], "[]")
           financialsData == ValueOrDefault(calls["financials"], "{data:[]}")
       IN  assembly' =
               IF quote.pc = "thrown"
               THEN [assembly EXCEPT !.pc = "failed",
                        !.error = "Failed to fetch quote data"]
               ELSE IF ~Truthy(quote.result) \/ PriceIsZero(quote.result)
               THEN [assembly EXCEPT !.pc = "failed", !.error = "Invalid stock symbol"]
               ELSE IF \/ PropertyReadThrows(financialsData)    \* line 682
                       \/ PropertyReadThrows(metricsData)       \* line 592, from 692
                       \/ PropertyReadThrows(profileData)       \* line 703
               THEN [assembly EXCEPT !.pc = "failed", !.error = "TypeError"]
               ELSE [assembly EXCEPT !.pc = "done",
                        !.detail = [quote |-> quote.result, profile |-> profileData,
                                    metrics |-> metricsData, earnings |-> earningsData,
                                    financials |-> financialsData]]
    /\ UNCHANGED <<now, cache, requestLog, calls, window, limitedAt, started, lastOp,
                   pf, calc, userDoc, page>>

----------------------------------------------------------------------------
(* SpecAssemble: one assembly; each of the five fetches is answered with a  *)
(* body or rejected                                                         *)

AssemblyStatuses == {200, 404}
AssemblyBodies == {JNull, ZeroQuote, GoodQuote}

InitAssemble == InitWith(AssemblySlots)

NextAssemble ==
    \/ \E hasKey \in BOOLEAN : FetchStockData("AAPL", hasKey)
    \/ \E c \in DOMAIN calls, s \in AssemblyStatuses, b \in AssemblyBodies :
           Respond(c, s, b)
    \/ AllSettled

SpecAssemble == InitAssemble /\ [][NextAssemble]_vars

----------------------------------------------------------------------------
(* SpecFanOut: one assembly whose five fetches fail, back off and retry     *)
(* independently of one another                                            *)

FanOutStatuses == {200, 404, 500}
FanOutInstants == {1000, 3000, 5000}

\* the fetches the server answers with errors; the other three get 200 only
FanOutFailing == {"quote", "profile"}

NextFanOut ==
    \/ \E hasKey \in BOOLEAN : FetchStockData("AAPL", hasKey)
    \/ \E c \in DOMAIN calls, s \in FanOutStatuses :
           /\ (c \in FanOutFailing \/ s = 200)
           /\ Respond(c, s, GoodQuote)
    \/ \E c \in DOMAIN calls : BackoffDone(c)
    \/ \E t \in FanOutInstants : Tick(t)
    \/ AllSettled

SpecFanOut == InitAssemble /\ [][NextFanOut]_vars

----------------------------------------------------------------------------
(* Sector and industry classification (fetchPortfolioData, lines 895-982).   *)
(* Labels are strings; TLC treats a string as the sequence of its            *)
(* characters.                                                               *)

\* one character of String.prototype.toLowerCase
LowerChar(ch) ==
    CASE ch = "A" -> "a"
      [] ch = "B" -> "b"
      [] ch = "C" -> "c"
      [] ch = "D" -> "d"
      [] ch = "E" -> "e"
      [] ch = "F" -> "f"
      [] ch = "G" -> "g"
      [] ch = "H" -> "h"
      [] ch = "I" -> "i"
      [] ch = "J" -> "j"
      [] ch = "K" -> "k"
      [] ch = "L" -> "l"
      [] ch = "M" -> "m"
      [] ch = "N" -> "n"
      [] ch = "O" -> "o"
      [] ch = "P" -> "p"
      [] ch = "Q" -> "q"
      [] ch = "R" -> "r"
      [] ch = "S" -> "s"
      [] ch = "T" -> "t"
      [] ch = "U" -> "u"
      [] ch = "V" -> "v"
      [] ch = "W" -> "w"
      [] ch = "X" -> "x"
      [] ch = "Y" -> "y"
      [] ch = "Z" -> "z"
      [] OTHER -> ch

RECURSIVE ToLowerCase(_)
ToLowerCase(s) ==
    IF Len(s) = 0 THEN ""
    ELSE LowerChar(SubSeq(s, 1, 1)) \o ToLowerCase(SubSeq(s, 2, Len(s)))

\* String.prototype.includes
Includes(s, keyword) ==
    \E i \in 0..(Len(s) - Len(keyword)) : SubSeq(s, i + 1, i + Len(keyword)) = keyword

\* String.prototype.trim() yields the empty string (only blanks)
RECURSIVE IsBlank(_)
IsBlank(s) ==
    \/ Len(s) = 0
    \/ SubSeq(s, 1, 1) = " " /\ IsBlank(SubSeq(s, 2, Len(s)))

\* the if / else-if chain of normalizeSector, lines 898-921, in order
SectorRules ==
    <<
       [label |-> "Technology",
        keywords |-> <<"technology", "information technology", "software", "internet">>],
       [label |-> "Healthcare",
        keywords |-> <<"health", "pharmaceuticals", "biotech", "medical">>],
       [label |-> "Financial Services",
        keywords |-> <<"financial", "bank", "insurance", "finance">>],
       [label |-> "Consumer Goods",
        keywords |-> <<"consumer", "retail", "discretionary", "staples">>],
       [label |-> "Energy",
        keywords |-> <<"energy", "oil", "gas", "petroleum">>],
       [label |-> "Industrials",
        keywords |-> <<"industrial", "manufacturing", "aerospace", "defense">>],
       [label |-> "Materials",
        keywords |-> <<"material", "mining", "chemical", "metals">>],
       [label |-> "Real Estate",
        keywords |-> <<"real estate", "reit">>],
       [label |-> "Utilities",
        keywords |-> <<"utilities", "electric", "water", "utility">>],
       [label |-> "Communication Services",
        keywords |-> <<"communication", "telecom", "media", "entertainment">>],
       [label |-> "Automotive",
        keywords |-> <<"auto", "vehicle", "transportation", "automotive">>],
       [label |-> "Food & Beverage",
        keywords |-> <<"food", "beverage", "agriculture", "restaurant">>]
    >>

\* the if / else-if chain of normalizeIndustry, lines 930-949, in order
IndustryRules ==
    <<
       [label |-> "Software",
        keywords |-> <<"software", "internet", "cloud", "saas">>],
       [label |-> "Semiconductors",
        keywords |-> <<"semiconductor", "chip", "electronics", "hardware">>],
       [label |-> "Automotive",
        keywords |-> <<"auto", "vehicle", "automotive">>],
       [label |-> "Pharmaceuticals",
        keywords |-> <<"pharma", "drug", "biotech", "medical">>],
       [label |-> "Banking",
        keywords |-> <<"bank", "financial", "lending">>],
       [label |-> "Retail",
        keywords |-> <<"retail", "e-commerce", "store">>],
       [label |-> "Energy",
        keywords |-> <<"energy", "oil", "renewable">>],
       [label |-> "Real Estate",
        keywords |-> <<"real estate", "property", "reit">>],
       [label |-> "Aerospace & Defense",
        keywords |-> <<"aerospace", "defense", "aviation">>],
       [label |-> "Telecommunications",
        keywords |-> <<"telecom", "wireless", "communication">>]
    >>

SectorFallback == "Technology"
IndustryFallback == "Software"

\* a rule's condition: s.includes(k1) || s.includes(k2) || ...
RuleMatches(rule, s) ==
    \E j \in 1..Len(rule.keywords) : Includes(s, rule.keywords[j])

RECURSIVE FirstMatch(_, _, _)
FirstMatch(rules, s, k) ==
    IF k > Len(rules) THEN 0
    ELSE IF RuleMatches(rules[k], s) THEN k
    ELSE FirstMatch(rules, s, k + 1)

\* variant of Classify: the last matching rule wins
Classify_LastMatch(rules, fallback, name) ==
    LET matching == {k \in 1..Len(rules) : RuleMatches(rules[k], ToLowerCase(name))}
    IN  IF matching = {} THEN fallback
        ELSE rules[CHOOSE k \in matching : \A m \in matching : m <= k].label

\* the chain applied to the lower-cased name; the else branch is the fallback
Classify(rules, fallback, name) ==
    LET k == FirstMatch(rules, ToLowerCase(name), 1)
    IN  IF k = 0 THEN fallback ELSE rules[k].label

\* lines 895-925
NormalizeSector(sectorName) == Classify(SectorRules, SectorFallback, sectorName)

\* lines 927-953
NormalizeIndustry(industryName) == Classify(IndustryRules, IndustryFallback, industryName)

----------------------------------------------------------------------------
(* SpecClassify: normalizeSector and normalizeIndustry applied to raw labels *)

\* raw labels as a provider sends them, and two-word combinations of some
RawWords ==
    {"", " ", "N/A", "Unknown", "Technology", "TECHNOLOGY", "Information Technology",
     "Biotechnology", "Health Care", "HEALTH CARE", "Pharmaceuticals",
     "Financial Services", "Banks", "Insurance", "Consumer Cyclical",
     "Consumer Electronics", "Retail", "Energy", "Oil & Gas", "Industrials",
     "Aerospace & Defense", "Basic Materials", "Real Estate", "Utilities",
     "Electric Utilities", "Communication Services", "Telecommunications", "Media",
     "Automobiles", "Auto Manufacturers", "Food Products", "Restaurants",
     "Semiconductors", "Software", "Cloud Computing", "Hardware", "Airlines",
     "Hotels"}

PairWords == {"Software", "Health", "Bank", "Retail", "ENERGY", "Electric", "Auto", "Misc"}

RawLabels == RawWords \cup {a \o " " \o b : a \in PairWords, b \in PairWords}

ApplyNormalizeSector(raw) ==
    /\ calc' = [fn |-> "normalizeSector", arg |-> raw, result |-> NormalizeSector(raw)]
    /\ UNCHANGED <<now, cache, requestLog, calls, window, limitedAt, started,
                   lastOp, assembly, pf, userDoc, page>>

ApplyNormalizeIndustry(raw) ==
    /\ calc' = [fn |-> "normalizeIndustry", arg |-> raw, result |-> NormalizeIndustry(raw)]
    /\ UNCHANGED <<now, cache, requestLog, calls, window, limitedAt, started,
                   lastOp, assembly, pf, userDoc, page>>

NextClassify ==
    \/ \E raw \in RawLabels : ApplyNormalizeSector(raw)
    \/ \E raw \in RawLabels : ApplyNormalizeIndustry(raw)

SpecClassify == Init /\ [][NextClassify]_vars

----------------------------------------------------------------------------
(* getRiskLevel.  Numbers are counted in tenths (beta 1.5 is 15, a P/E of 30 *)
(* is 300); an argument is <<n>>, or <<>> when it is undefined.              *)

\* variant of Gt: the comparison is not strict
Gt_Inclusive(x, t) == x # <<>> /\ x[1] >= t

\* x > t; false when x is undefined
Gt(x, t) == x # <<>> /\ x[1] > t

\* x < t; false when x is undefined
Lt(x, t) == x # <<>> /\ x[1] < t

\* if (debtToEquity): defined and not zero
TruthyNumber(x) == x # <<>> /\ x[1] # 0

\* lines 434-481; the result's level and score
GetRiskLevel(beta, peRatio, marketCap, debtToEquity) ==
    LET s1 == IF Gt(beta, 15) THEN 3
              ELSE IF Gt(beta, 12) THEN 2
              ELSE IF Gt(beta, 10) THEN 1 ELSE 0
        s2 == IF Gt(peRatio, 300) THEN 3
              ELSE IF Gt(peRatio, 200) THEN 2
              ELSE IF Gt(peRatio, 150) THEN 1 ELSE 0
        s3 == IF Lt(marketCap, 20) THEN 3
              ELSE IF Lt(marketCap, 100) THEN 2
              ELSE IF Lt(marketCap, 500) THEN 1 ELSE 0
        s4 == IF TruthyNumber(debtToEquity)
              THEN IF Gt(debtToEquity, 10) THEN 2
                   ELSE IF Gt(debtToEquity, 5) THEN 1 ELSE 0
              ELSE 0
        riskScore == s1 + s2 + s3 + s4
    IN  IF riskScore >= 6 THEN [level |-> "High Risk", score |-> riskScore]
        ELSE IF riskScore >= 3 THEN [level |-> "Medium Risk", score |-> riskScore]
        ELSE [level |-> "Low Risk", score |-> riskScore]

(* SpecRisk: getRiskLevel applied at, just below and just above each threshold *)

Betas == {<<>>, <<9>>, <<10>>, <<11>>, <<12>>, <<13>>, <<15>>, <<16>>, <<20>>}
PeRatios == {<<>>, <<150>>, <<151>>, <<200>>, <<201>>, <<300>>, <<301>>, <<350>>}
MarketCaps == {<<>>, <<10>>, <<19>>, <<20>>, <<99>>, <<100>>, <<499>>, <<500>>}
DebtToEquities == {<<>>, <<0>>, <<5>>, <<6>>, <<10>>, <<11>>, <<12>>}

ApplyGetRiskLevel(beta, peRatio, marketCap, debtToEquity) ==
    /\ calc.fn = "none"
    /\ calc' = [fn |-> "getRiskLevel", beta |-> beta, peRatio |-> peRatio,
                marketCap |-> marketCap, debtToEquity |-> debtToEquity,
                result |-> GetRiskLevel(beta, peRatio, marketCap, debtToEquity)]
    /\ UNCHANGED <<now, cache, requestLog, calls, window, limitedAt, started,
                   lastOp, assembly, pf, userDoc, page>>

NextRisk ==
    \E b \in Betas, p \in PeRatios, m \in MarketCaps, d \in DebtToEquities :
        ApplyGetRiskLevel(b, p, m, d)

SpecRisk == Init /\ [][NextRisk]_vars

----------------------------------------------------------------------------
(* XIRR.  Dates are day numbers.  The Newton-Raphson iteration works on      *)
(* real numbers (Math.pow with fractional exponents); its result is kept as  *)
(* an uninterpreted term of its inputs.                                      *)

Null == [kind |-> "null"]
Throws(error) == [kind |-> "throws", error |-> error]

\* lines 725-758: the iteration from rate 0.1 on these flows and day offsets
NewtonRaphson(cashFlows, daysDiff) ==
    [kind |-> "newton-raphson", cashFlows |-> cashFlows, daysDiff |-> daysDiff]

\* variant of LengthsUnusable: only the number of flows is checked
LengthsUnusable_FlowsOnly(cashFlows, dates) == Len(cashFlows) < 2

\* line 710
LengthsUnusable(cashFlows, dates) ==
    Len(cashFlows) # Len(dates) \/ Len(cashFlows) < 2

\* lines 715-716: cashFlows.filter(cf => cf > 0).length and its negative twin
PositiveFlows(cashFlows) == Len(SelectSeq(cashFlows, LAMBDA cf : cf > 0))
NegativeFlows(cashFlows) == Len(SelectSeq(cashFlows, LAMBDA cf : cf < 0))

\* lines 709-759
CalculateXIRR(cashFlows, dates) ==
    IF LengthsUnusable(cashFlows, dates) THEN Null
    ELSE LET positiveFlows == PositiveFlows(cashFlows)
             negativeFlows == NegativeFlows(cashFlows)
         IN  IF positiveFlows = 0 \/ negativeFlows = 0 THEN Null
             ELSE IF Len(dates) = 0
             THEN Throws("TypeError")            \* dates[0].getTime(), line 722
             ELSE NewtonRaphson(cashFlows,
                                [j \in 1..Len(dates) |-> dates[j] - dates[1]])

\* the day new Date() falls on
Today == 365

RECURSIVE SumTotalValue(_)
SumTotalValue(holdings) ==
    IF holdings = <<>> THEN 0
    ELSE Head(holdings).totalValue + SumTotalValue(Tail(holdings))

\* lines 769-775: one negative flow per holding with a positive purchase cost
RECURSIVE PurchaseFlows(_)
PurchaseFlows(holdings) ==
    IF holdings = <<>> THEN <<>>
    ELSE LET holding == Head(holdings)
             purchaseCost == holding.shares * holding.avgPrice
         IN  (IF purchaseCost > 0
              THEN << [flow |-> -purchaseCost, date |-> holding.purchaseDate] >>
              ELSE <<>>) \o PurchaseFlows(Tail(holdings))

\* lines 762-785
CalculatePortfolioXIRR(holdings) ==
    IF Len(holdings) = 0 THEN Null
    ELSE LET purchases == PurchaseFlows(holdings)
             totalCurrentValue == SumTotalValue(holdings)
             closing == IF totalCurrentValue > 0
                        THEN << [flow |-> totalCurrentValue, date |-> Today] >>
                        ELSE <<>>
             flows == purchases \o closing
         IN  CalculateXIRR([j \in 1..Len(flows) |-> flows[j].flow],
                           [j \in 1..Len(flows) |-> flows[j].date])

(* SpecXirr: both functions applied once to small inputs *)

MaxFlows == 3

FlowValues == {-1000, 0, 1100}
DateValues == {0, 365}

SeqsUpTo(S, n) == UNION {[1..m -> S] : m \in 0..n}

\* holdings as calculatePortfolioXIRR reads them
XirrHoldings ==
    [shares : {10}, avgPrice : {0, 150}, totalValue : {0, 1800},
     purchaseDate : DateValues]

ApplyCalculateXIRR(cashFlows, dates) ==
    /\ calc.fn = "none"
    /\ calc' = [fn |-> "calculateXIRR", cashFlows |-> cashFlows, dates |-> dates,
                result |-> CalculateXIRR(cashFlows, dates)]
    /\ UNCHANGED <<now, cache, requestLog, calls, window, limitedAt, started,
                   lastOp, assembly, pf, userDoc, page>>

ApplyCalculatePortfolioXIRR(holdings) ==
    /\ calc.fn = "none"
    /\ calc' = [fn |-> "calculatePortfolioXIRR", holdings |-> holdings,
                result |-> CalculatePortfolioXIRR(holdings)]
    /\ UNCHANGED <<now, cache, requestLog, calls, window, limitedAt, started,
                   lastOp, assembly, pf, userDoc, page>>

NextXirr ==
    \/ \E cashFlows \in SeqsUpTo(FlowValues, MaxFlows),
          dates \in SeqsUpTo(DateValues, MaxFlows) :
           ApplyCalculateXIRR(cashFlows, dates)
    \/ \E holdings \in SeqsUpTo(XirrHoldings, MaxFlows - 1) :
           ApplyCalculatePortfolioXIRR(holdings)

SpecXirr == Init /\ [][NextXirr]_vars

----------------------------------------------------------------------------
(* Numbers.  The program computes in floating point; the model computes the  *)
(* same expressions exactly, a non-integer value being a reduced fraction.   *)

Abs(x) == IF x < 0 THEN -x ELSE x

RECURSIVE Gcd(_, _)
Gcd(a, b) == IF b = 0 THEN a ELSE Gcd(b, a % b)

\* the number n / d, for d > 0
Ratio(n, d) ==
    LET g == Gcd(Abs(n), d)
    IN  [num |-> n \div g, den |-> d \div g]

Zero == Ratio(0, 1)

RatioAdd(a, b) == Ratio(a.num * b.den + b.num * a.den, a.den * b.den)

\* array.reduce((sum, x) => sum + x, 0)
RECURSIVE SumSeq(_)
SumSeq(xs) == IF xs = <<>> THEN 0 ELSE Head(xs) + SumSeq(Tail(xs))

----------------------------------------------------------------------------
(* fetchPortfolioData (HomePage.tsx, lines 817-1105): the portfolio summary  *)

\* a stored portfolio entry: a plain symbol string (legacy), or an object
StringEntry(symbol) ==
    [legacy |-> TRUE, symbol |-> symbol, shares |-> 0, avgPrice |-> 0,
     purchaseDate |-> 0]
ObjectEntry(symbol, shares, avgPrice, purchaseDate) ==
    [legacy |-> FALSE, symbol |-> symbol, shares |-> shares, avgPrice |-> avgPrice,
     purchaseDate |-> purchaseDate]

\* lines 855-869: the fields read from an entry
SharesOf(item) == IF item.legacy THEN 0 ELSE item.shares
AvgPriceOf(item) == IF item.legacy THEN 0 ELSE item.avgPrice
PurchaseDateOf(item) == IF item.legacy THEN Today ELSE item.purchaseDate

\* variant of IsWatchlist: only plain-string entries are set aside
IsWatchlist_StringsOnly(item) == item.legacy

\* line 872: shares === 0
IsWatchlist(item) == SharesOf(item) = 0

\* line 955-982: the manual table
ManualMappings ==
    [
     AAPL |-> [sector |-> "Technology", industry |-> "Consumer Electronics"],
     MSFT |-> [sector |-> "Technology", industry |-> "Software"],
     AMZN |-> [sector |-> "Consumer Goods", industry |-> "E-commerce"],
     GOOGL |-> [sector |-> "Technology", industry |-> "Internet Services"],
     GOOG |-> [sector |-> "Technology", industry |-> "Internet Services"],
     TSLA |-> [sector |-> "Automotive", industry |-> "Electric Vehicles"],
     META |-> [sector |-> "Communication Services", industry |-> "Social Media"],
     NVDA |-> [sector |-> "Technology", industry |-> "Semiconductors"],
     AMD |-> [sector |-> "Technology", industry |-> "Semiconductors"],
     INTC |-> [sector |-> "Technology", industry |-> "Semiconductors"],
     JPM |-> [sector |-> "Financial Services", industry |-> "Banking"],
     BAC |-> [sector |-> "Financial Services", industry |-> "Banking"],
     JNJ |-> [sector |-> "Healthcare", industry |-> "Pharmaceuticals"],
     PFE |-> [sector |-> "Healthcare", industry |-> "Pharmaceuticals"],
     XOM |-> [sector |-> "Energy", industry |-> "Oil & Gas"],
     CVX |-> [sector |-> "Energy", industry |-> "Oil & Gas"],
     WMT |-> [sector |-> "Consumer Goods", industry |-> "Retail"],
     HD |-> [sector |-> "Consumer Goods", industry |-> "Home Improvement"],
     DIS |-> [sector |-> "Communication Services", industry |-> "Entertainment"],
     NFLX |-> [sector |-> "Communication Services", industry |-> "Streaming"],
     CRM |-> [sector |-> "Technology", industry |-> "Cloud Software"],
     ORCL |-> [sector |-> "Technology", industry |-> "Enterprise Software"]
    ]

\* mappings[stockSymbol] || null, as <<entry>> or <<>>
GetManualSectorMapping(stockSymbol) ==
    IF stockSymbol \in DOMAIN ManualMappings
    THEN <<ManualMappings[stockSymbol]>>
    ELSE <<>>

\* a profile body: null, or an object; a field the provider omits is ""
\* (undefined and "" are both falsy wherever a field is read)
NullProfile == [json |-> "null"]
Profile(name, gicsSector, sector, gicsIndustry, gicsSubIndustry, finnhubIndustry, industry) ==
    [json |-> "object", name |-> name, gicsSector |-> gicsSector, sector |-> sector,
     gicsIndustry |-> gicsIndustry, gicsSubIndustry |-> gicsSubIndustry,
     finnhubIndustry |-> finnhubIndustry, industry |-> industry]

\* lines 999 / 1011: s && s.trim() && s !== 'N/A' && s !== ''
Usable(s) == s # "" /\ ~IsBlank(s) /\ s # "N/A"

\* possibleX.length > 0 ? possibleX[0] : the default
FirstUsable(candidates, default) ==
    LET usable == SelectSeq(candidates, Usable)
    IN  IF Len(usable) > 0 THEN usable[1] ELSE default

\* lines 985-1020: company name and normalized labels
NormalizedLabels(symbol, profileData) ==
    IF profileData.json = "null"
    THEN [companyName |-> symbol, sector |-> "Technology", industry |-> "Software"]
    ELSE [companyName |-> IF profileData.name # "" THEN profileData.name ELSE symbol,
          sector |-> NormalizeSector(FirstUsable(
                         <<profileData.gicsSector, profileData.sector,
                           profileData.gicsIndustry, profileData.gicsSubIndustry>>,
                         "Technology")),
          industry |-> NormalizeIndustry(FirstUsable(
                         <<profileData.finnhubIndustry, profileData.industry,
                           profileData.gicsSubIndustry, profileData.gicsIndustry>>,
                         "Software"))]

\* variant of UseManualMapping: either label at its fallback is enough
UseManualMapping_Either(sector, industry) ==
    sector = "Technology" \/ industry = "Software"

\* line 1023
UseManualMapping(sector, industry) ==
    sector = "Technology" /\ industry = "Software"

\* lines 1022-1029
FinalLabels(symbol, labels) ==
    IF UseManualMapping(labels.sector, labels.industry)
          /\ GetManualSectorMapping(symbol) # <<>>
    THEN [labels EXCEPT !.sector = GetManualSectorMapping(symbol)[1].sector,
                        !.industry = GetManualSectorMapping(symbol)[1].industry]
    ELSE labels

\* a quote body: an object whose field c is a number, <<n>>, or missing, <<>>
Quote(c) == [json |-> "object", c |-> c]

\* line 887: stockData && stockData.c
HasPrice(stockData) ==
    stockData.json = "object" /\ stockData.c # <<>> /\ stockData.c[1] # 0

\* what the two fetches of one holding come to
Rejected == [kind |-> "rejected"]        \* a fetch rejects: transport failure
NotJson == [kind |-> "not-json"]         \* response.json() rejects
Parsed(stockData, profileData) ==
    [kind |-> "parsed", stockData |-> stockData, profileData |-> profileData]

\* lines 887-1043: the holding built from a quote with a price
PricedHolding(item, stockData, profileData) ==
    LET symbol == item.symbol
        shares == SharesOf(item)
        avgPrice == AvgPriceOf(item)
        currentPrice == stockData.c[1]
        totalValue == currentPrice * shares
        totalCost == avgPrice * shares
        gainLoss == totalValue - totalCost
        labels == FinalLabels(symbol, NormalizedLabels(symbol, profileData))
    IN  [symbol |-> symbol, companyName |-> labels.companyName, shares |-> shares,
         avgPrice |-> avgPrice, currentPrice |-> currentPrice,
         totalValue |-> totalValue, gainLoss |-> Ratio(gainLoss, 1),
         gainLossPercent |-> IF totalCost > 0 THEN Ratio(gainLoss * 100, totalCost)
                             ELSE Zero,
         industry |-> labels.industry, sector |-> labels.sector,
         purchaseDate |-> PurchaseDateOf(item)]

\* lines 1045-1060: the holding pushed by the catch block
FallbackHolding(item) ==
    [symbol |-> item.symbol, companyName |-> item.symbol, shares |-> SharesOf(item),
     avgPrice |-> AvgPriceOf(item), currentPrice |-> AvgPriceOf(item),
     totalValue |-> AvgPriceOf(item) * SharesOf(item), gainLoss |-> Zero,
     gainLossPercent |-> Zero, industry |-> "Software", sector |-> "Technology",
     purchaseDate |-> PurchaseDateOf(item)]

\* lines 877-1061: the holdings one entry contributes, given its fetches
HoldingsFor(item, outcome) ==
    IF outcome.kind = "parsed"
    THEN IF HasPrice(outcome.stockData)
         THEN << PricedHolding(item, outcome.stockData, outcome.profileData) >>
         ELSE <<>>
    ELSE << FallbackHolding(item) >>

\* variant of Percentage: the share as a fraction of 1
Percentage_Fraction(value, totalValue) == Ratio(value, totalValue)

\* line 796
Percentage(value, totalValue) == Ratio(value * 100, totalValue)

\* lines 799-808: a missing, blank or 'Unknown' label becomes the default
CleanLabel(label, default) ==
    IF label = "" \/ label = "Unknown" \/ IsBlank(label) THEN default ELSE label

\* lines 795-812: the distribution over the first k holdings, keys[j] being
\* the label of holding j
RECURSIVE Distribute(_, _, _, _)
Distribute(holdings, keys, k, totalValue) ==
    IF k = 0 THEN EmptyMap
    ELSE LET before == Distribute(holdings, keys, k - 1, totalValue)
             percentage == Percentage(holdings[k].totalValue, totalValue)
         IN  MapSet(before, keys[k],
                    RatioAdd(IF keys[k] \in DOMAIN before THEN before[keys[k]]
                             ELSE Zero,
                             percentage))

\* lines 788-815
CalculateDiversity(holdings) ==
    LET totalValue == SumTotalValue(holdings)
        n == Len(holdings)
    IN  IF totalValue = 0
        THEN [sectorDistribution |-> EmptyMap, industryDistribution |-> EmptyMap]
        ELSE [sectorDistribution |->
                  Distribute(holdings,
                             [j \in 1..n |-> CleanLabel(holdings[j].sector, "Technology")],
                             n, totalValue),
              industryDistribution |->
                  Distribute(holdings,
                             [j \in 1..n |-> CleanLabel(holdings[j].industry, "Software")],
                             n, totalValue)]

\* variant of HoldingCost: the cost at the current price
HoldingCost_AtCurrentPrice(h) == h.shares * h.currentPrice

\* line 1074: h.shares * h.avgPrice
HoldingCost(h) == h.shares * h.avgPrice

NoPortfolio == [kind |-> "null"]

\* lines 1072-1097 (todayGain, a random number, is left out)
Summary(processedHoldings) ==
    LET totalValue == SumTotalValue(processedHoldings)
        totalCost == SumSeq([j \in 1..Len(processedHoldings) |->
                                HoldingCost(processedHoldings[j])])
        totalGain == totalValue - totalCost
        diversity == CalculateDiversity(processedHoldings)
    IN  [kind |-> "summary", totalValue |-> totalValue, totalCost |-> totalCost,
         totalGain |-> totalGain,
         totalGainPercent |-> IF totalCost > 0 THEN Ratio(totalGain * 100, totalCost)
                              ELSE Zero,
         xirr |-> CalculatePortfolioXIRR(processedHoldings),
         diversity |-> diversity.sectorDistribution,
         industryDiversity |-> diversity.industryDistribution,
         holdings |-> processedHoldings]

\* lines 1064-1097: after the loop
Finish(p) ==
    [p EXCEPT !.pc = "done", !.savedStocks = p.watchlistStocks,
              !.portfolio = IF Len(p.processedHoldings) = 0 THEN NoPortfolio
                            ELSE Summary(p.processedHoldings)]

\* lines 849-882: the loop runs on, setting watchlist entries aside, until an
\* entry's fetches are awaited or the entries are used up
RECURSIVE Advance(_)
Advance(p) ==
    IF p.i > Len(p.items) THEN Finish(p)
    ELSE IF IsWatchlist(p.items[p.i])
    THEN Advance([p EXCEPT !.watchlistStocks = Append(@, p.items[p.i].symbol),
                           !.i = p.i + 1])
    ELSE [p EXCEPT !.pc = "fetching"]

\* lines 817-882: fetchPortfolioData is called; userDoc is read
FetchPortfolioData(hasUser, docOutcome, stored) ==
    /\ pf.pc = "idle"
    /\ pf' = IF ~hasUser THEN [IdlePortfolio EXCEPT !.pc = "done"]
             ELSE IF docOutcome = "rejects"
             THEN [IdlePortfolio EXCEPT !.pc = "done",
                                         !.error = "Failed to load portfolio data"]
             ELSE IF docOutcome = "missing" \/ Len(stored) = 0
             THEN [IdlePortfolio EXCEPT !.pc = "done"]
             ELSE Advance([IdlePortfolio EXCEPT !.items = stored])
    /\ UNCHANGED <<now, cache, requestLog, calls, window, limitedAt, started,
                   lastOp, assembly, calc, userDoc, page>>

\* lines 879-1062: the fetches of the awaited entry settle; the loop continues
FetchesSettle(outcome) ==
    /\ pf.pc = "fetching"
    /\ LET item == pf.items[pf.i]
           pushed == HoldingsFor(item, outcome)
           seen == [item |-> pf.i, outcome |-> outcome,
                    normalized |-> IF outcome.kind = "parsed" /\ HasPrice(outcome.stockData)
                                   THEN << NormalizedLabels(item.symbol,
                                                            outcome.profileData) >>
                                   ELSE <<>>]
       IN  pf' = Advance([pf EXCEPT !.processedHoldings = @ \o pushed,
                                    !.trace = Append(@, seen),
                                    !.i = pf.i + 1])
    /\ UNCHANGED <<now, cache, requestLog, calls, window, limitedAt, started,
                   lastOp, assembly, calc, userDoc, page>>

(* SpecPortfolio: one load of a stored portfolio of a few entries *)

MaxItems == 2

Symbols == {"AAPL", "TSLA", "ZZZ"}

\* entries the form stores (shares and avgPrice are never negative, the
\* form's default avgPrice is 0) and legacy strings
Entries ==
    {StringEntry(s) : s \in Symbols}
        \cup {ObjectEntry(s, n, a, 0) : s \in Symbols, n \in {0, 10}, a \in {0, 150}}

\* stored portfolios: each symbol at most once
StoredPortfolios ==
    {items \in SeqsUpTo(Entries, MaxItems) :
        \A j, k \in 1..Len(items) : j # k => items[j].symbol # items[k].symbol}

Profiles ==
    {NullProfile,
     Profile("", "", "", "", "", "", ""),
     Profile("Tesla Inc", "", "", "", "", "Automobiles", ""),
     Profile("Acme", "N/A", "Health Care", "", "", " ", "Biotechnology"),
     Profile("Initech", "Information Technology", "", "", "", "Software", "")}

FetchOutcomes ==
    {Rejected, NotJson,
     Parsed([json |-> "null"], Profile("", "", "", "", "", "", "")),
     Parsed(Quote(<<>>), Profile("", "", "", "", "", "", "")),
     Parsed(Quote(<<0>>), Profile("", "", "", "", "", "", ""))}
        \cup {Parsed(Quote(<<180>>), p) : p \in Profiles}

NextPortfolio ==
    \/ \E hasUser \in BOOLEAN, docOutcome \in {"rejects", "missing", "exists"},
          stored \in StoredPortfolios :
           FetchPortfolioData(hasUser, docOutcome, stored)
    \/ \E outcome \in FetchOutcomes : FetchesSettle(outcome)

InitPortfolio == InitWith({"c1"})

SpecPortfolio == InitPortfolio /\ [][NextPortfolio]_vars

----------------------------------------------------------------------------
(* generateInvestmentRecommendation (part_000, lines 902-943).  Numbers are  *)
(* in tenths, as for getRiskLevel: a score of 5 is 50, the threshold 0.5 is  *)
(* 5.  An optional number is <<>> when absent and <<n>> when present.        *)

\* a stock detail: the fields the recommendation reads; momentum is "" when
\* technicalIndicators is absent
StockData(peRatio, roe, debtToEquity, currentRatio, grossMargin, changePercent, momentum, volume, avgVolume, dividend) ==
    [peRatio |-> peRatio, roe |-> roe, debtToEquity |-> debtToEquity,
     currentRatio |-> currentRatio, grossMargin |-> grossMargin,
     changePercent |-> changePercent, momentum |-> momentum, volume |-> volume,
     avgVolume |-> avgVolume, dividend |-> dividend]

\* lines 903-906
StartScores == [longTerm |-> 50, shortTerm |-> 50, dividend |-> 0, reasons |-> <<>>]

\* `stockData.x && ...`: the field is present and not 0
FieldUsed(x) == TruthyNumber(x)

\* lines 909-913 and 916-922: the rules that add to a score and push a reason
Raise(r, field, points, reason) ==
    [r EXCEPT ![field] = @ + points, !.reasons = Append(@, reason)]

\* lines 909-931: rule k of the ten, applied to the running scores r
ApplyRule(k, stockData, r) ==
    CASE k = 1 ->
           IF FieldUsed(stockData.peRatio) /\ stockData.peRatio[1] < 150
           THEN Raise(r, "longTerm", 10, "Attractive valuation") ELSE r
      [] k = 2 ->
           IF FieldUsed(stockData.roe) /\ stockData.roe[1] > 150
           THEN Raise(r, "longTerm", 10, "Strong profitability") ELSE r
      [] k = 3 ->
           IF FieldUsed(stockData.debtToEquity) /\ stockData.debtToEquity[1] < 5
           THEN Raise(r, "longTerm", 10, "Strong balance sheet") ELSE r
      [] k = 4 ->
           IF FieldUsed(stockData.currentRatio) /\ stockData.currentRatio[1] > 15
           THEN Raise(r, "longTerm", 10, "Good liquidity") ELSE r
      [] k = 5 ->
           IF FieldUsed(stockData.grossMargin) /\ stockData.grossMargin[1] > 300
           THEN Raise(r, "longTerm", 10, "High margins") ELSE r
      [] k = 6 ->
           IF FieldUsed(stockData.changePercent) /\ stockData.changePercent[1] > 50
           THEN Raise(r, "shortTerm", 20, "Strong momentum") ELSE r
      [] k = 7 ->
           IF FieldUsed(stockData.changePercent) /\ stockData.changePercent[1] < -50
           THEN [r EXCEPT !.shortTerm = @ - 20] ELSE r
      [] k = 8 ->
           IF stockData.momentum = "BULLISH"
           THEN Raise(r, "shortTerm", 10, "Bullish technicals") ELSE r
      [] k = 9 ->
           IF FieldUsed(stockData.volume) /\ FieldUsed(stockData.avgVolume)
                 /\ 2 * stockData.volume[1] > 3 * stockData.avgVolume[1]
           THEN Raise(r, "shortTerm", 10, "High trading volume") ELSE r
      [] k = 10 ->
           IF FieldUsed(stockData.dividend)
           THEN LET doubled == stockData.dividend[1] * 2
                    scored == [r EXCEPT !.dividend = IF doubled < 100 THEN doubled
                                                     ELSE 100]
                IN  IF stockData.dividend[1] > 30
                    THEN [scored EXCEPT !.reasons = Append(@, "Good dividend yield")]
                    ELSE scored
           ELSE r

RuleCount == 10

\* the running scores after the first k rules
RECURSIVE AfterRules(_, _)
AfterRules(stockData, k) ==
    IF k = 0 THEN StartScores
    ELSE ApplyRule(k, stockData, AfterRules(stockData, k - 1))

\* variant of Overall: BUY from an average of 6
Overall_LowBar(sum) ==
    IF sum <= 120 THEN "SELL" ELSE IF sum >= 180 THEN "BUY" ELSE "HOLD"

\* lines 933-937, on the sum of the three scores: average >= 7, average <= 4
Overall(sum) ==
    IF sum <= 120 THEN "SELL" ELSE IF sum >= 210 THEN "BUY" ELSE "HOLD"

\* Math.max(0, Math.min(10, x))
Clamp(x) == IF x < 0 THEN 0 ELSE IF x > 100 THEN 100 ELSE x

\* reasons.slice(0, 5)
FirstFive(reasons) == SubSeq(reasons, 1, IF Len(reasons) < 5 THEN Len(reasons) ELSE 5)

\* lines 902-943
GenerateInvestmentRecommendation(stockData) ==
    LET r == AfterRules(stockData, RuleCount)
    IN  [longTerm |-> Clamp(r.longTerm), shortTerm |-> Clamp(r.shortTerm),
         dividend |-> Clamp(r.dividend),
         overall |-> Overall(r.longTerm + r.shortTerm + r.dividend),
         reasons |-> FirstFive(r.reasons)]

(* SpecRecommend: the recommendation for stock details around each rule *)

OptionalVolumes ==
    {<< <<>>, <<>> >>, << <<200>>, <<100>> >>, << <<100>>, <<100>> >>,
     << <<200>>, <<>> >>}

StockDatas ==
    {StockData(pe, roe, de, cr, gm, cp, mo, v[1], v[2], dv) :
        pe \in {<<>>, <<100>>}, roe \in {<<>>, <<200>>},
        de \in {<<>>, <<0>>, <<3>>, <<12>>}, cr \in {<<>>, <<20>>},
        gm \in {<<>>, <<400>>}, cp \in {<<>>, <<0>>, <<60>>, <<-60>>},
        mo \in {"", "BULLISH", "BEARISH"}, v \in OptionalVolumes,
        dv \in {<<>>, <<0>>, <<20>>, <<60>>, <<-40>>}}

ApplyGenerateInvestmentRecommendation(stockData) ==
    /\ calc.fn = "none"
    /\ calc' = [fn |-> "generateInvestmentRecommendation", stockData |-> stockData,
                result |-> GenerateInvestmentRecommendation(stockData)]
    /\ UNCHANGED <<now, cache, requestLog, calls, window, limitedAt, started,
                   lastOp, assembly, pf, userDoc, page>>

NextRecommend ==
    \E stockData \in StockDatas : ApplyGenerateInvestmentRecommendation(stockData)

SpecRecommend == Init /\ [][NextRecommend]_vars

----------------------------------------------------------------------------
(* handleAddOrUpdatePortfolio and handleRemoveFromPortfolio (HomePage.tsx,   *)
(* lines 426-521): each reads the user document, computes the new portfolio  *)
(* array and writes it back.  A handler is suspended at `await getDoc` and   *)
(* at `await updateDoc`; the document is read and written when these settle. *)

\* a handler that returned; wrote tells whether its updateDoc was applied
DoneOp(kind, symbol, message, wrote) ==
    [pc |-> "done", kind |-> kind, symbol |-> symbol, message |-> message,
     wrote |-> wrote]

\* variant of WithoutSymbol: plain-string entries are never removed
WithoutSymbol_ObjectsOnly(currentPortfolio, selectedStock) ==
    SelectSeq(currentPortfolio,
              LAMBDA item : item.legacy \/ item.symbol # selectedStock)

\* lines 449-451 / 501-503: currentPortfolio.filter(...)
WithoutSymbol(currentPortfolio, selectedStock) ==
    SelectSeq(currentPortfolio, LAMBDA item : item.symbol # selectedStock)

\* variant of CurrentPortfolio: the array is taken from the document as it is
\* when the write is applied
CurrentPortfolio_AtWrite(snapshot, stored) == stored

\* line 446 / 498: userData.portfolio of the document getDoc returned, whatever
\* is stored by the time the write is applied
CurrentPortfolio(snapshot, stored) == snapshot

\* lines 426-443: handleAddOrUpdatePortfolio is called, up to `await getDoc`
HandleAddOrUpdatePortfolio(o, hasUser, selectedStock, shares, avgPrice, isEditing) ==
    /\ userDoc.ops[o].pc = "idle"
    /\ userDoc' =
         [userDoc EXCEPT
            !.clock = @ + 1,
            !.ops[o] =
               IF ~hasUser
               THEN DoneOp("add", selectedStock,
                           "Please login to manage your portfolio", FALSE)
               ELSE IF selectedStock = ""
               THEN DoneOp("add", selectedStock, "Please select a stock", FALSE)
               ELSE IF shares < 0 \/ avgPrice < 0
               THEN DoneOp("add", selectedStock,
                           "Shares and price cannot be negative", FALSE)
               ELSE [pc |-> "reading", kind |-> "add", symbol |-> selectedStock,
                     shares |-> shares, avgPrice |-> avgPrice,
                     isEditing |-> isEditing]]
    /\ UNCHANGED <<now, cache, requestLog, calls, window, limitedAt, started,
                   lastOp, assembly, pf, calc, page>>

\* lines 491-496: handleRemoveFromPortfolio is called, up to `await getDoc`
HandleRemoveFromPortfolio(o, hasUser, selectedStock) ==
    /\ userDoc.ops[o].pc = "idle"
    /\ userDoc' =
         [userDoc EXCEPT
            !.clock = @ + 1,
            !.ops[o] =
               IF ~hasUser \/ selectedStock = ""
               THEN DoneOp("remove", selectedStock, "", FALSE)
               ELSE [pc |-> "reading", kind |-> "remove", symbol |-> selectedStock,
                     shares |-> 0, avgPrice |-> 0, isEditing |-> FALSE]]
    /\ UNCHANGED <<now, cache, requestLog, calls, window, limitedAt, started,
                   lastOp, assembly, pf, calc, page>>

\* the message of the catch block
ErrorMessage(kind) ==
    IF kind = "add" THEN "Error updating portfolio" ELSE "Error removing from portfolio"

\* lines 444-465 / 497-507: getDoc settles; on success the handler runs on to
\* `await updateDoc` holding the document it read.  readAt is a ghost
GetDocSettles(o, resolved) ==
    /\ userDoc.ops[o].pc = "reading"
    /\ LET op == userDoc.ops[o]
       IN  userDoc' =
             [userDoc EXCEPT
                !.clock = @ + 1,
                !.ops[o] =
                   IF resolved
                   THEN [pc |-> "writing", kind |-> op.kind, symbol |-> op.symbol,
                         shares |-> op.shares, avgPrice |-> op.avgPrice,
                         isEditing |-> op.isEditing,
                         snapshot |-> userDoc.portfolio, readAt |-> userDoc.clock + 1]
                   ELSE DoneOp(op.kind, op.symbol, ErrorMessage(op.kind), FALSE)]
    /\ UNCHANGED <<now, cache, requestLog, calls, window, limitedAt, started,
                   lastOp, assembly, pf, calc, page>>

\* lines 449-465 / 501-507: the array passed to updateDoc
NewPortfolio(op, stored) ==
    LET filteredPortfolio ==
            WithoutSymbol(CurrentPortfolio(op.snapshot, stored), op.symbol)
    IN  IF op.kind = "add"
        THEN Append(filteredPortfolio,
                    ObjectEntry(op.symbol, op.shares, op.avgPrice, Today))
        ELSE filteredPortfolio

\* lines 467-473 / 509: the message after the write
SuccessMessage(op) ==
    IF op.kind = "remove" THEN "removed from portfolio"
    ELSE IF op.shares = 0 THEN "saved to watchlist (0 shares)"
    ELSE IF op.isEditing THEN "updated successfully!"
    ELSE "added to portfolio successfully!"

\* lines 463-489 / 505-520: updateDoc settles; on success the whole portfolio
\* array of the document has been replaced.  wroteAt is a ghost
UpdateDocSettles(o, resolved) ==
    /\ userDoc.ops[o].pc = "writing"
    /\ LET op == userDoc.ops[o]
       IN  userDoc' =
             IF resolved
             THEN [userDoc EXCEPT
                     !.clock = @ + 1,
                     !.portfolio = NewPortfolio(op, userDoc.portfolio),
                     !.ops[o] = [pc |-> "done", kind |-> op.kind, symbol |-> op.symbol,
                                 message |-> SuccessMessage(op), wrote |-> TRUE,
                                 snapshot |-> op.snapshot, readAt |-> op.readAt,
                                 written |-> NewPortfolio(op, userDoc.portfolio),
                                 wroteAt |-> userDoc.clock + 1]]
             ELSE [userDoc EXCEPT
                     !.clock = @ + 1,
                     !.ops[o] = DoneOp(op.kind, op.symbol, ErrorMessage(op.kind), FALSE)]
    /\ UNCHANGED <<now, cache, requestLog, calls, window, limitedAt, started,
                   lastOp, assembly, pf, calc, page>>

(* SpecDoc: two handlers at work on a stored portfolio of up to two symbols *)

DocSymbols == {"AAPL", "TSLA"}

DocEntries ==
    {StringEntry(s) : s \in DocSymbols}
        \cup {ObjectEntry(s, n, 150, 0) : s \in DocSymbols, n \in {0, 10}}

\* stored portfolios: each symbol at most once
DocPortfolios ==
    {items \in SeqsUpTo(DocEntries, MaxItems) :
        \A j, k \in 1..Len(items) : j # k => items[j].symbol # items[k].symbol}

NextDoc ==
    \/ \E o \in OpSlots, hasUser \in BOOLEAN, selectedStock \in DocSymbols \cup {""},
          shares \in {-1, 0, 10}, avgPrice \in {-1, 150}, isEditing \in BOOLEAN :
           HandleAddOrUpdatePortfolio(o, hasUser, selectedStock, shares, avgPrice,
                                      isEditing)
    \/ \E o \in OpSlots, hasUser \in BOOLEAN, selectedStock \in DocSymbols \cup {""} :
           HandleRemoveFromPortfolio(o, hasUser, selectedStock)
    \/ \E o \in OpSlots, resolved \in BOOLEAN : GetDocSettles(o, resolved)
    \/ \E o \in OpSlots, resolved \in BOOLEAN : UpdateDocSettles(o, resolved)

InitDoc == \E stored \in DocPortfolios : InitAt({"c1"}, stored)

SpecDoc == InitDoc /\ [][NextDoc]_vars

----------------------------------------------------------------------------
(* The stock page (part_000, lines 1190-1259): the effects run when the      *)
(* viewed symbol changes, and loadAllData.  Only the state the load sets is  *)
(* kept: stockDetails, analysis, error, loading; the background fetches of   *)
(* peers, chart, tweets and news set none of it.  In what is displayed,      *)
(* `load` is a ghost: the number of the loadAllData invocation that set it   *)
(* (0: set by an effect itself).                                             *)

MaxLoads == 3

\* lines 1190-1205, then 1208-1218: the symbol of the route changes (or the
\* page is mounted), both effects run; loadAllData runs up to its await
SymbolChanges(symbol) ==
    /\ symbol # page.symbol \/ page = FreshPage
    /\ Len(page.loads) < MaxLoads
    /\ page' =
         IF symbol = ""
         THEN [page EXCEPT
                 !.symbol = symbol,
                 !.error = << [message |-> "No stock symbol provided", load |-> 0] >>,
                 !.loading = FALSE]
         ELSE [page EXCEPT
                 !.symbol = symbol,
                 !.stockDetails = <<>>,
                 !.analysis = <<>>,
                 !.error = <<>>,
                 !.loading = TRUE,
                 !.loads = Append(@, [symbol |-> symbol, pc |-> "awaiting"])]
    /\ UNCHANGED <<now, cache, requestLog, calls, window, limitedAt, started,
                   lastOp, assembly, pf, calc, userDoc>>

\* lines 1219-1258: `await fetchStockData(symbol)` of load l settles, and the
\* load runs to its end
FetchStockDataSettles(l, resolved) ==
    /\ l \in 1..Len(page.loads)
    /\ page.loads[l].pc = "awaiting"
    /\ page' =
         IF resolved
         THEN [page EXCEPT
                 !.stockDetails = << [symbol |-> page.loads[l].symbol, load |-> l] >>,
                 !.analysis = << [symbol |-> page.loads[l].symbol, load |-> l] >>,
                 !.loading = FALSE,
                 !.loads[l].pc = "done"]
         ELSE [page EXCEPT
                 !.error = << [message |-> "Failed to load stock data", load |-> l] >>,
                 !.loading = FALSE,
                 !.loads[l].pc = "done"]
    /\ UNCHANGED <<now, cache, requestLog, calls, window, limitedAt, started,
                   lastOp, assembly, pf, calc, userDoc>>

(* SpecPage: the viewed symbol changes while loads are in flight *)

PageSymbols == {"AAPL", "TSLA", ""}

NextPage ==
    \/ \E symbol \in PageSymbols : SymbolChanges(symbol)
    \/ \E l \in 1..MaxLoads, resolved \in BOOLEAN : FetchStockDataSettles(l, resolved)

SpecPage == Init /\ [][NextPage]_vars

----------------------------------------------------------------------------
(* SpecOverlap: two calls for the same URL at work at the same time *)

OverlapSlots == {"c1", "c2"}
OverlapStatuses == {200, 500}
OverlapBodies == {"{v1}", "{v2}"}
OverlapRetries == {1, 2}
OverlapInstants == {1000, 2000}

InitOverlap == InitWith(OverlapSlots)

NextOverlap ==
    \/ \E c \in OverlapSlots, r \in OverlapRetries : Call(c, QuoteA, r, <<>>)
    \/ \E c \in OverlapSlots, s \in OverlapStatuses, b \in OverlapBodies :
           Respond(c, s, b)
    \/ \E c \in OverlapSlots : FetchFails(c)
    \/ \E c \in OverlapSlots : BackoffDone(c)
    \/ \E t \in OverlapInstants : Tick(t)

SpecOverlap == InitOverlap /\ [][NextOverlap]_vars

----------------------------------------------------------------------------
(* Properties of the rate window, checked under SpecRate *)

\* C1: per pathname (URLs that differ only in the query share it) at most 30
\* calls are admitted within any trailing 60 s, and a call made while 30
\* admissions lie within the previous 60 s throws RateLimited without any
\* network call.
C1_AtMost30PerWindow ==
    /\ \A p \in DOMAIN window : Len(window[p]) <= 30
    /\ \A c \in DOMAIN calls :
           LET k == calls[c]
           IN  (k.pc # "idle" /\ k.seen >= 30) =>
                   /\ k.pc = "thrown"
                   /\ k.lastError = RateLimitedErr
                   /\ k.netCalls = 0

\* a call for TSLA is rejected although no TSLA call ever succeeded: the window
\* holds 30 admissions, some of them for AAPL
C1_Witness ==
    \E c \in DOMAIN calls :
        /\ calls[c].url = QuoteB
        /\ calls[c].seen = 30
        /\ calls[c].pc = "thrown"
        /\ QuoteA \in DOMAIN cache
        /\ QuoteB \notin DOMAIN cache

\* C2: a call is admitted whenever fewer than 30 admissions lie within the
\* previous 60 s, so an endpoint recovers once its admissions are 60 s old; a
\* rejected call records no timestamp; after a check the stored log holds no
\* timestamp older than the window (a rejected check finds none to prune).
C2_WindowRecovers ==
    /\ \A c \in DOMAIN calls :
           LET k == calls[c]
           IN  /\ (k.pc # "idle" /\ k.seen < 30) =>
                      (k.logged = 1 /\ k.lastError # RateLimitedErr)
               /\ (k.pc # "idle" /\ k.seen >= 30) => k.logged = 0
               /\ k.lastError = RateLimitedErr =>
                      Len(LogOf(requestLog, k.url.path)) = k.seen
    /\ \A p \in DOMAIN requestLog :
           \A i \in 1..Len(requestLog[p]) :
               requestLog[p][Len(requestLog[p])] - requestLog[p][i] < 60000

\* rejected at 59999 ms, admitted at 60000 ms, and the log pruned to that call
C2_Witness ==
    \E c \in DOMAIN calls :
        /\ now = 60000
        /\ calls[c].url.path = QuoteA.path
        /\ calls[c].pc # "idle"
        /\ calls[c].seen = 0
        /\ calls[c].logged = 1
        /\ QuoteA.path \in DOMAIN limitedAt
        /\ limitedAt[QuoteA.path] = 59999
        /\ requestLog[QuoteA.path] = <<60000>>

----------------------------------------------------------------------------
(* Properties of get and set, checked under SpecCache *)

EntryAge(op, key) == op.at - op.before[key].timestamp

\* C6: set stores value, store time and ttl (300000 when omitted), replacing
\* any earlier entry and nothing else; get returns the stored value while the
\* entry's age is at most its ttl and leaves the cache alone; once the age
\* exceeds the ttl get returns null and removes the entry, which until then
\* stays in the cache (the passage of time alone removes nothing).
C6_CacheRoundTrip ==
    LET o == lastOp
    IN  /\ o.kind = "set" =>
               cache = MapSet(o.before, o.key,
                              [data |-> o.data, timestamp |-> o.at,
                               ttl |-> IF o.ttl = <<>> THEN 300000 ELSE o.ttl[1]])
        /\ (o.kind = "get" /\ o.key \notin DOMAIN o.before) =>
               (o.data = JNull /\ cache = o.before)
        /\ (o.kind = "get" /\ o.key \in DOMAIN o.before) =>
               IF EntryAge(o, o.key) <= o.before[o.key].ttl
               THEN o.data = o.before[o.key].data /\ cache = o.before
               ELSE /\ o.data = JNull
                    /\ cache = [x \in DOMAIN o.before \ {o.key} |-> o.before[x]]

\* a get one millisecond past the ttl found the entry still stored, returned
\* null and removed it
C6_Witness ==
    /\ lastOp.kind = "get"
    /\ lastOp.key \in DOMAIN lastOp.before
    /\ lastOp.before[lastOp.key].data = "{v2}"
    /\ EntryAge(lastOp, lastOp.key) = lastOp.before[lastOp.key].ttl + 1
    /\ lastOp.data = JNull
    /\ lastOp.key \notin DOMAIN cache

----------------------------------------------------------------------------
(* Properties of fetchStockData, checked under SpecAssemble *)

\* C10 as stated: the assembly succeeds exactly when the quote fetch is
\* fulfilled with a non-zero price; it fails with the quote / invalid-symbol
\* error when the quote fetch is rejected or its price is 0; a failed
\* profile, metrics, earnings or financials fetch is replaced by its default.
C10_SucceedsIffQuoteHasPrice ==
    assembly.pc \in {"done", "failed"} =>
        LET q == calls["quote"]
            default == [profile |-> "{}", metrics |-> "{metric:{}}",
                        earnings |-> "[]", financials |-> "{data:[]}"]
        IN  /\ assembly.pc = "done" <=> (q.pc = "returned" /\ q.result = GoodQuote)
            /\ q.pc = "thrown" => assembly.error = "Failed to fetch quote data"
            /\ (q.pc = "returned" /\ q.result = ZeroQuote) =>
                   assembly.error = "Invalid stock symbol"
            /\ assembly.pc = "done" =>
                   \A c \in DOMAIN default :
                       assembly.detail[c] = IF calls[c].pc = "thrown"
                                            THEN default[c] ELSE calls[c].result

----------------------------------------------------------------------------
(* Properties of fetchWithRetry, checked under Spec *)

LastOutcome(k) == k.outcomes[Len(k.outcomes)]

\* the error a settled attempt raises: 0 is a rejected fetch or parse
ExpectedError(o) ==
    IF o = 0 THEN TransportErr
    ELSE IF o = 429 THEN ApiRateLimitErr
    ELSE IF o >= 500 THEN ServerErr(o)
    ELSE HttpErr(o)

BackoffSchedule == <<1000, 2000, 4000, 8000>>

\* C3: a 429 or other 4xx response ends the call at once with that error: no
\* further network attempt and no backoff delay after it, whatever maxRetries is.
C3_ClientErrorFailsAtOnce ==
    \A c \in DOMAIN calls :
        LET k == calls[c]
            n == Len(k.outcomes)
        IN  (n > 0 /\ LastOutcome(k) \div 100 = 4) =>
                /\ k.pc = "thrown"
                /\ k.lastError = IF LastOutcome(k) = 429 THEN ApiRateLimitErr
                                 ELSE HttpErr(LastOutcome(k))
                /\ k.netCalls = n
                /\ Len(k.delays) = n - 1

\* a 404 on the second of three allowed attempts has ended the call
C3_Witness ==
    \E c \in DOMAIN calls :
        /\ calls[c].outcomes = <<500, 404>>
        /\ calls[c].maxRetries = 3
        /\ calls[c].pc = "thrown"

\* C4: the backoff delays are 1000, 2000, 4000, ... ms, one between each pair of
\* consecutive attempts and each fully waited; a call that succeeds on attempt k
\* returns that attempt's body after k delays; a call never makes more than
\* maxRetries attempts and schedules no delay after its final attempt.
C4_BackoffSchedule ==
    \A c \in DOMAIN calls :
        LET k == calls[c]
            n == Len(k.outcomes)
            d == Len(k.delays)
        IN  /\ k.netCalls <= k.maxRetries
            /\ k.delays = SubSeq(BackoffSchedule, 1, d)
            /\ d > 0 => k.wakeAt = k.delayedFrom + k.delays[d]
            /\ k.pc = "backoff" => (d = n /\ n < k.maxRetries /\ k.netCalls = n)
            /\ k.pc = "fetching" =>
                   (d = n /\ k.netCalls = n + 1 /\ (d > 0 => k.resumedAt >= k.wakeAt))
            /\ (k.pc = "returned" /\ ~k.hit) =>
                   (k.result = k.lastBody /\ LastOutcome(k) \div 100 = 2
                    /\ d = n - 1 /\ k.netCalls = n)
            /\ (k.pc = "thrown" /\ n > 0) => (d = n - 1 /\ k.netCalls = n)

\* server error, transport failure, then success on the third attempt of three
C4_Witness ==
    \E c \in DOMAIN calls :
        /\ calls[c].outcomes = <<500, 0, 200>>
        /\ calls[c].maxRetries = 3
        /\ calls[c].pc = "returned"
        /\ calls[c].result = "{v2}"
        /\ calls[c].delays = <<1000, 2000>>

\* C5: when all maxRetries attempts have failed the call throws the error of the
\* last attempt, not an earlier one and not the generic error.
C5_LastErrorSurfaces ==
    \A c \in DOMAIN calls :
        LET k == calls[c]
            n == Len(k.outcomes)
        IN  (k.pc = "thrown" /\ n >= 1 /\ n = k.maxRetries) =>
                /\ k.lastError = ExpectedError(LastOutcome(k))
                /\ k.lastError # AllFailedErr

\* three attempts failed in three different ways; the last one's error is thrown
C5_Witness ==
    \E c \in DOMAIN calls :
        /\ calls[c].outcomes = <<500, 304, 0>>
        /\ calls[c].maxRetries = 3
        /\ calls[c].pc = "thrown"
        /\ calls[c].lastError = TransportErr

\* C7 as stated: a call made while an unexpired value is cached for its URL and
\* its endpoint is not rate limited returns that value, makes no network call
\* and records exactly one timestamp.
C7_CachedValueServed ==
    \A c \in DOMAIN calls :
        LET k == calls[c]
        IN  (k.pc # "idle" /\ k.hadFresh /\ k.seen < 30) =>
                /\ k.pc = "returned"
                /\ k.result = k.freshData
                /\ k.netCalls = 0
                /\ k.logged = 1

\* C8 as stated: a 2xx body is in the cache under the URL with the caller's ttl
\* (300000 when omitted) when the call returns, a later call for the URL within
\* the ttl is served from the cache, and a call that fails has not changed the
\* cache.
C8_StoredOnSuccessOnly ==
    \A c \in DOMAIN calls :
        LET k == calls[c]
        IN  /\ (k.pc = "returned" /\ ~k.hit) =>
                   /\ k.url \in DOMAIN cache
                   /\ cache[k.url].data = k.result
                   /\ cache[k.url].ttl = IF k.ttl = <<>> THEN 300000 ELSE k.ttl[1]
            /\ (k.pc # "idle" /\ k.hadFresh /\ k.seen < 30) =>
                   (k.hit /\ k.result = k.freshData)
            /\ k.pc = "thrown" => ~k.touched

\* C9 as stated: an attempt is followed by another (or by a backoff delay
\* leading to one) only if it failed with a status >= 500 or a transport failure.
C9_RetryOnlyServerOrTransport ==
    \A c \in DOMAIN calls :
        LET k == calls[c]
        IN  \A i \in 1..Len(k.outcomes) :
                (i < k.netCalls \/ k.pc = "backoff") =>
                    (k.outcomes[i] = 0 \/ k.outcomes[i] >= 500)

\* C9 amended: an attempt is followed by another only if it failed with a
\* non-ok status outside 4xx (>= 500, or below 400 such as 3xx) or a transport
\* failure; a call that fails before its attempts are used up failed on a 4xx.
C9_RetryUnlessClientError ==
    \A c \in DOMAIN calls :
        LET k == calls[c]
            n == Len(k.outcomes)
        IN  /\ \A i \in 1..n :
                   (i < k.netCalls \/ k.pc = "backoff") =>
                       (k.outcomes[i] = 0 \/ k.outcomes[i] >= 500
                        \/ k.outcomes[i] \div 100 \in {1, 3})
            /\ (k.pc = "thrown" /\ n >= 1 /\ n < k.maxRetries) =>
                   LastOutcome(k) \div 100 = 4

\* a 304 response was followed by a second attempt
C9_Witness ==
    \E c \in DOMAIN calls :
        /\ Len(calls[c].outcomes) >= 1
        /\ calls[c].outcomes[1] = 304
        /\ calls[c].netCalls = 2

----------------------------------------------------------------------------
(* Properties of the fan-out of fetchStockData, checked under SpecFanOut *)

\* C11: the five fetches are all issued before the assembly awaits; a fetch
\* that has failed leaves its siblings running (a fetching sibling can still
\* be answered, a sibling in backoff resumes when its delay is over, and a
\* sibling fails only with the error of its own last attempt); the assembly
\* settles only once all five fetches, retries and backoff delays included,
\* have settled, also when the quote fetch has already failed.
C11_FanOutFanIn ==
    /\ assembly.pc = "awaiting" =>
           \A c \in AssemblySlots : calls[c].pc # "idle" /\ calls[c].netCalls >= 1
    /\ (assembly.pc \in {"done", "failed"}
            /\ assembly.error # "Finnhub API key not configured") =>
           \A c \in AssemblySlots : calls[c].pc \in {"returned", "thrown"}
    /\ \A c \in AssemblySlots :
           LET k == calls[c]
           IN  /\ k.pc = "fetching" => ENABLED Respond(c, 200, GoodQuote)
               /\ (k.pc = "backoff" /\ now >= k.wakeAt) => ENABLED BackoffDone(c)
               /\ k.pc = "thrown" =>
                      /\ Len(k.outcomes) >= 1
                      /\ k.lastError = ExpectedError(LastOutcome(k))

\* the quote fetch has failed with 404 while the profile fetch is in its
\* second backoff and the earnings fetch is still unanswered: the assembly
\* is still waiting
C11_Witness ==
    /\ assembly.pc = "awaiting"
    /\ calls["quote"].pc = "thrown"
    /\ calls["quote"].outcomes = <<404>>
    /\ calls["profile"].pc = "backoff"
    /\ calls["profile"].delays = <<1000, 2000>>
    /\ calls["earnings"].pc = "fetching"
    /\ calls["metrics"].pc = "returned"

----------------------------------------------------------------------------
(* Properties of normalizeSector / normalizeIndustry, checked under SpecClassify *)

\* the label the claim assigns: that of the lowest-numbered rule one of whose
\* keywords occurs in the name regardless of case, else the fallback
ClaimedLabel(rules, fallback, name) ==
    LET lower == ToLowerCase(name)
        matching == {k \in 1..Len(rules) :
                        \E j \in 1..Len(rules[k].keywords) :
                            Includes(lower, rules[k].keywords[j])}
    IN  IF matching = {} THEN fallback
        ELSE rules[CHOOSE k \in matching : \A m \in matching : k <= m].label

\* C18: both functions return the label of the first rule, in order, one of
\* whose keywords is a substring of the name compared case-insensitively, and
\* the fallback (Technology / Software) when no rule matches, the empty string
\* included; 'Biotechnology' and 'Information Technology' map to Technology.
C18_FirstRuleWins ==
    /\ calc.fn = "normalizeSector" =>
           /\ calc.result = ClaimedLabel(SectorRules, "Technology", calc.arg)
           /\ calc.arg \in {"", "Biotechnology", "Information Technology"} =>
                  calc.result = "Technology"
           /\ calc.arg = "HEALTH CARE" => calc.result = "Healthcare"
    /\ calc.fn = "normalizeIndustry" =>
           /\ calc.result = ClaimedLabel(IndustryRules, "Software", calc.arg)
           /\ calc.arg \in {"", "Hotels"} => calc.result = "Software"

\* 'Biotechnology' holds a keyword of the first rule (technology) and one of
\* the second (biotech) and was mapped to Technology
C18_Witness ==
    /\ calc.fn = "normalizeSector"
    /\ calc.arg = "Biotechnology"
    /\ RuleMatches(SectorRules[1], ToLowerCase(calc.arg))
    /\ RuleMatches(SectorRules[2], ToLowerCase(calc.arg))
    /\ calc.result = "Technology"

----------------------------------------------------------------------------
(* Properties of getRiskLevel, checked under SpecRisk (numbers in tenths) *)

\* one point per threshold strictly exceeded (an undefined value exceeds none)
PointsAbove(x, thresholds) ==
    IF x = <<>> THEN 0 ELSE Cardinality({t \in thresholds : x[1] > t})

\* one point per threshold the value is strictly below
PointsBelow(x, thresholds) ==
    IF x = <<>> THEN 0 ELSE Cardinality({t \in thresholds : x[1] < t})

\* C20: score = 3/2/1 for beta > 1.5/1.2/1, plus 3/2/1 for P/E > 30/20/15, plus
\* 3/2/1 for marketCap < 2/10/50, plus 2/1 for debtToEquity > 1/0.5 when
\* present, every comparison strict; High Risk from 6, Medium Risk from 3, Low
\* Risk below; beta 2.0, P/E 35, marketCap 1, debtToEquity 1.2 is High Risk.
C20_RiskScore ==
    calc.fn = "getRiskLevel" =>
        LET score == PointsAbove(calc.beta, {10, 12, 15})
                       + PointsAbove(calc.peRatio, {150, 200, 300})
                       + PointsBelow(calc.marketCap, {20, 100, 500})
                       + PointsAbove(calc.debtToEquity, {5, 10})
        IN  /\ calc.result.score = score
            /\ calc.result.level = "High Risk" <=> score >= 6
            /\ calc.result.level = "Medium Risk" <=> (3 <= score /\ score < 6)
            /\ calc.result.level = "Low Risk" <=> score < 3
            /\ (calc.beta = <<20>> /\ calc.peRatio = <<350>> /\ calc.marketCap = <<10>>
                    /\ calc.debtToEquity = <<12>>) =>
                   calc.result = [level |-> "High Risk", score |-> 11]

\* all four arguments exactly on a threshold: beta 1.5, P/E 30, marketCap 2,
\* debtToEquity 1 score 2 + 2 + 2 + 1 = 7
C20_Witness ==
    /\ calc.fn = "getRiskLevel"
    /\ calc.beta = <<15>>
    /\ calc.peRatio = <<300>>
    /\ calc.marketCap = <<20>>
    /\ calc.debtToEquity = <<10>>
    /\ calc.result = [level |-> "High Risk", score |-> 7]

----------------------------------------------------------------------------
(* Properties of the XIRR functions, checked under SpecXirr *)

\* C16: calculateXIRR returns null, and does not throw, when there are fewer
\* than 2 flows, when flows and dates differ in number, or when no flow is
\* strictly positive or none strictly negative; calculatePortfolioXIRR returns
\* null when no holding has a positive purchase cost or when the total current
\* value is not positive.  Neither function throws on any input.
C16_XirrRejectsToNull ==
    /\ calc.fn = "calculateXIRR" =>
           /\ calc.result.kind # "throws"
           /\ (\/ Len(calc.cashFlows) < 2
               \/ Len(calc.cashFlows) # Len(calc.dates)
               \/ \A j \in 1..Len(calc.cashFlows) : calc.cashFlows[j] <= 0
               \/ \A j \in 1..Len(calc.cashFlows) : calc.cashFlows[j] >= 0) =>
                  calc.result = Null
    /\ calc.fn = "calculatePortfolioXIRR" =>
           /\ calc.result.kind # "throws"
           /\ (\/ \A j \in 1..Len(calc.holdings) :
                      calc.holdings[j].shares * calc.holdings[j].avgPrice <= 0
               \/ SumTotalValue(calc.holdings) <= 0) =>
                  calc.result = Null

\* two flows of opposite sign with no date at all: null, where skipping the
\* length comparison would read dates[0] of an empty array
C16_Witness ==
    /\ calc.fn = "calculateXIRR"
    /\ calc.cashFlows = <<-1000, 1100>>
    /\ calc.dates = <<>>
    /\ calc.result = Null

----------------------------------------------------------------------------
(* Properties of the portfolio summary, checked under SpecPortfolio *)

RECURSIVE ConcatAll(_)
ConcatAll(seqs) == IF seqs = <<>> THEN <<>> ELSE Head(seqs) \o ConcatAll(Tail(seqs))

\* the stored entries with no shares, and the others
ZeroShareEntries == SelectSeq(pf.items, LAMBDA it : it.legacy \/ it.shares = 0)
HeldEntries == SelectSeq(pf.items, LAMBDA it : ~(it.legacy \/ it.shares = 0))

Loaded == pf.pc = "done" /\ Len(pf.items) > 0

\* C12: summarisation partitions the stored entries. Entries with shares = 0,
\* plain-string entries included, make up the saved list and nothing else:
\* no holding has zero shares or a saved symbol, and the whole summary
\* (holdings, totals, allocations, XIRR) is what the entries with shares alone
\* give under the same fetch outcomes, so that adding or removing zero-share
\* entries changes nothing in it.
C12_WatchlistPartition ==
    Loaded =>
        /\ pf.savedStocks = [j \in 1..Len(ZeroShareEntries) |-> ZeroShareEntries[j].symbol]
        /\ Len(pf.trace) = Len(HeldEntries)
        /\ \A j \in 1..Len(pf.processedHoldings) :
               /\ pf.processedHoldings[j].shares # 0
               /\ \A k \in 1..Len(pf.savedStocks) :
                      pf.savedStocks[k] # pf.processedHoldings[j].symbol
        /\ LET alone == ConcatAll([j \in 1..Len(HeldEntries) |->
                                      HoldingsFor(HeldEntries[j], pf.trace[j].outcome)])
           IN  pf.portfolio = IF Len(alone) = 0 THEN NoPortfolio ELSE Summary(alone)

\* a legacy string entry stored before an entry with shares: the first is
\* saved, the second is the one reported holding
C12_Witness ==
    /\ Loaded
    /\ Len(pf.items) = 2
    /\ pf.items[1].legacy
    /\ pf.items[2].shares = 10
    /\ pf.savedStocks = << pf.items[1].symbol >>
    /\ pf.portfolio.kind = "summary"
    /\ Len(pf.portfolio.holdings) = 1

\* a fetch outcome that is a failure: transport error, non-JSON body, or a
\* quote without a usable price
FetchFailed(outcome) ==
    \/ outcome.kind \in {"rejected", "not-json"}
    \/ /\ outcome.kind = "parsed"
       /\ \/ outcome.stockData.json = "null"
          \/ outcome.stockData.c = <<>>
          \/ outcome.stockData.c = <<0>>

\* C13: every stored entry with shares > 0 appears in the holdings whatever
\* its fetches came to, and after a failed fetch its holding is reported at
\* currentPrice = avgPrice, totalValue = shares * avgPrice, zero gain/loss.
C13_EveryPositionReported ==
    Loaded =>
        /\ Len(pf.processedHoldings) = Len(HeldEntries)
        /\ \A j \in 1..Len(HeldEntries) :
               j <= Len(pf.processedHoldings) =>
                   LET h == pf.processedHoldings[j]
                   IN  /\ h.symbol = HeldEntries[j].symbol
                       /\ h.shares = HeldEntries[j].shares
                       /\ FetchFailed(pf.trace[j].outcome) =>
                              /\ h.currentPrice = h.avgPrice
                              /\ h.totalValue = h.shares * h.avgPrice
                              /\ h.gainLoss = Zero
                              /\ h.gainLossPercent = Zero

\* C14: in every summary totalValue is the sum of shares * currentPrice over
\* the reported holdings, totalCost the sum of shares * avgPrice, totalGain
\* their difference, and totalGainPercent is totalGain / totalCost * 100 when
\* totalCost > 0 and 0 when totalCost is 0; 10 shares bought at 150 and
\* priced at 180 give 1800, 1500, 300 and 20.
C14_Totals ==
    pf.portfolio.kind = "summary" =>
        LET hs == pf.portfolio.holdings
            value == SumSeq([j \in 1..Len(hs) |-> hs[j].shares * hs[j].currentPrice])
            cost == SumSeq([j \in 1..Len(hs) |-> hs[j].shares * hs[j].avgPrice])
            percent == pf.portfolio.totalGainPercent
        IN  /\ pf.portfolio.totalValue = value
            /\ pf.portfolio.totalCost = cost
            /\ pf.portfolio.totalGain = value - cost
            /\ percent.den > 0
            /\ IF cost > 0 THEN percent.num * cost = (value - cost) * 100 * percent.den
               ELSE percent.num = 0
            /\ (Len(hs) = 1 /\ hs[1].shares = 10 /\ hs[1].avgPrice = 150
                    /\ hs[1].currentPrice = 180) =>
                   /\ pf.portfolio.totalValue = 1800
                   /\ pf.portfolio.totalCost = 1500
                   /\ pf.portfolio.totalGain = 300
                   /\ percent = [num |-> 20, den |-> 1]

\* the summary of one holding of 10 shares bought at 150 and priced at 180
C14_Witness ==
    /\ pf.portfolio.kind = "summary"
    /\ Len(pf.portfolio.holdings) = 1
    /\ pf.portfolio.holdings[1].shares = 10
    /\ pf.portfolio.holdings[1].avgPrice = 150
    /\ pf.portfolio.holdings[1].currentPrice = 180
    /\ pf.portfolio.totalGainPercent = [num |-> 20, den |-> 1]

\* the sum of the percentages of a distribution
RECURSIVE SumOfRatios(_, _)
SumOfRatios(distribution, keys) ==
    IF keys = {} THEN Zero
    ELSE LET key == CHOOSE x \in keys : TRUE
         IN  RatioAdd(distribution[key], SumOfRatios(distribution, keys \ {key}))

SumsTo100(distribution) ==
    SumOfRatios(distribution, DOMAIN distribution) = [num |-> 100, den |-> 1]

\* the percentage the claim gives a label: the sum of
\* holding.totalValue / totalValue * 100 over the holdings carrying it
RECURSIVE ShareOf(_, _, _, _)
ShareOf(hs, labels, key, total) ==
    IF hs = <<>> THEN Zero
    ELSE RatioAdd(IF Head(labels) = key THEN Ratio(Head(hs).totalValue * 100, total)
                  ELSE Zero,
                  ShareOf(Tail(hs), Tail(labels), key, total))

\* both allocations are as the claim says
AllocationsAsClaimed ==
    LET hs == pf.portfolio.holdings
        total == pf.portfolio.totalValue
        sectors == [j \in 1..Len(hs) |-> hs[j].sector]
        industries == [j \in 1..Len(hs) |-> hs[j].industry]
    IN  /\ SumsTo100(pf.portfolio.diversity)
        /\ SumsTo100(pf.portfolio.industryDiversity)
        /\ DOMAIN pf.portfolio.diversity = {sectors[j] : j \in 1..Len(hs)}
        /\ DOMAIN pf.portfolio.industryDiversity = {industries[j] : j \in 1..Len(hs)}
        /\ \A key \in DOMAIN pf.portfolio.diversity :
               pf.portfolio.diversity[key] = ShareOf(hs, sectors, key, total)
        /\ \A key \in DOMAIN pf.portfolio.industryDiversity :
               pf.portfolio.industryDiversity[key] = ShareOf(hs, industries, key, total)
        /\ (Len(hs) = 2 /\ hs[1].totalValue = hs[2].totalValue
                /\ hs[1].sector # hs[2].sector) =>
               pf.portfolio.diversity =
                   [key \in {hs[1].sector, hs[2].sector} |-> [num |-> 50, den |-> 1]]

\* C15 as stated: whenever the summary's holdings are non-empty, the sector
\* percentages (and the industry percentages) sum to 100, each entry being
\* the sum of holding.totalValue / totalValue * 100 over its holdings.
C15_AllocationSumsTo100 ==
    (pf.portfolio.kind = "summary" /\ Len(pf.portfolio.holdings) > 0) =>
        AllocationsAsClaimed

\* C15, amended: whenever the holdings' total value is not 0 the sector and
\* the industry percentages each sum to 100, each entry being the sum of
\* holding.totalValue / totalValue * 100 over its holdings (two holdings of
\* equal value in different sectors: two entries of 50); when the holdings
\* are worth 0 in total both allocations are empty.
C15_AllocationSumsTo100UnlessWorthless ==
    pf.portfolio.kind = "summary" =>
        IF pf.portfolio.totalValue # 0 THEN AllocationsAsClaimed
        ELSE /\ pf.portfolio.diversity = EmptyMap
             /\ pf.portfolio.industryDiversity = EmptyMap

\* two holdings of equal value in different sectors, 50 each
C15_Witness ==
    /\ pf.portfolio.kind = "summary"
    /\ Len(pf.portfolio.holdings) = 2
    /\ pf.portfolio.holdings[1].totalValue = 1800
    /\ pf.portfolio.holdings[2].totalValue = 1800
    /\ pf.portfolio.holdings[1].sector = "Automotive"
    /\ pf.portfolio.holdings[2].sector = "Technology"
    /\ pf.portfolio.diversity =
           [key \in {"Automotive", "Technology"} |-> [num |-> 50, den |-> 1]]

\* the fetched entries that got a holding, in the order of the holdings
Reported ==
    SelectSeq(pf.trace, LAMBDA t : HoldingsFor(pf.items[t.item], t.outcome) # <<>>)

\* C19: the manual symbol table decides the labels of a holding exactly when
\* normalization gave sector Technology and industry Software together: then
\* a symbol of the table gets the table's sector and industry (TSLA:
\* Automotive / Electric Vehicles) and any other symbol keeps Technology /
\* Software; when either normalized label differs from its fallback the
\* normalized labels are kept, also for the symbols of the table.
C19_ManualTableOnlyOnDoubleFallback ==
    /\ Len(Reported) = Len(pf.processedHoldings)
    /\ \A j \in 1..Len(Reported) :
           Reported[j].normalized # <<>> =>
               LET h == pf.processedHoldings[j]
                   n == Reported[j].normalized[1]
               IN  IF n.sector = "Technology" /\ n.industry = "Software"
                   THEN /\ h.symbol \in DOMAIN ManualMappings =>
                               /\ h.sector = ManualMappings[h.symbol].sector
                               /\ h.industry = ManualMappings[h.symbol].industry
                        /\ h.symbol \notin DOMAIN ManualMappings =>
                               h.sector = "Technology" /\ h.industry = "Software"
                        /\ h.symbol = "TSLA" =>
                               h.sector = "Automotive" /\ h.industry = "Electric Vehicles"
                   ELSE h.sector = n.sector /\ h.industry = n.industry

\* TSLA with both labels at their fallback takes the table's labels, while a
\* symbol of the table whose normalized industry is not Software keeps its
\* normalized labels
C19_Witness ==
    /\ Len(Reported) = 2
    /\ Len(pf.processedHoldings) = 2
    /\ Reported[1].normalized # <<>>
    /\ Reported[2].normalized # <<>>
    /\ pf.processedHoldings[1].symbol = "TSLA"
    /\ Reported[1].normalized[1].sector = "Technology"
    /\ Reported[1].normalized[1].industry = "Software"
    /\ pf.processedHoldings[1].sector = "Automotive"
    /\ pf.processedHoldings[2].symbol = "AAPL"
    /\ Reported[2].normalized[1].sector = "Technology"
    /\ Reported[2].normalized[1].industry # "Software"
    /\ pf.processedHoldings[2].sector = "Technology"
    /\ pf.processedHoldings[2].industry = Reported[2].normalized[1].industry

----------------------------------------------------------------------------
(* Further properties of getRiskLevel, checked under SpecRisk *)

\* C21: the score getRiskLevel reports lies within 0..10 for every input,
\* also for beta 2.0, P/E 35, market cap 1 and debt/equity 1.2, whose points
\* add up to 11.
C21_ScoreWithin0To10 ==
    calc.fn = "getRiskLevel" => calc.result.score \in 0..10

----------------------------------------------------------------------------
(* Properties of generateInvestmentRecommendation, checked under             *)
(* SpecRecommend                                                             *)

Recommended == calc.fn = "generateInvestmentRecommendation"

\* rule k changes a score of the stock detail under recommendation
Adjusts(k) ==
    LET before == AfterRules(calc.stockData, k - 1)
        after == AfterRules(calc.stockData, k)
    IN  \/ after.longTerm # before.longTerm
        \/ after.shortTerm # before.shortTerm
        \/ after.dividend # before.dividend

\* rule k appends exactly one reason
AppendsOneReason(k) ==
    Len(AfterRules(calc.stockData, k).reasons)
        = Len(AfterRules(calc.stockData, k - 1).reasons) + 1

\* C22: every rule that adjusts a score appends one reason string, and the
\* returned reasons are the first 5 (at most) of the reasons of the triggered
\* rules, in the order the rules are evaluated.
C22_EveryAdjustmentHasReason ==
    Recommended =>
        /\ \A k \in 1..RuleCount : Adjusts(k) => AppendsOneReason(k)
        /\ calc.result.reasons = FirstFive(AfterRules(calc.stockData, RuleCount).reasons)

\* C23: the three returned scores each lie in [0, 10], and the overall label
\* follows from the average of the three reported scores: BUY when it is
\* >= 7, SELL when it is <= 4, HOLD otherwise, for every input, negative
\* dividend yields included.
C23_LabelFromReportedScores ==
    Recommended =>
        LET reported == calc.result.longTerm + calc.result.shortTerm
                            + calc.result.dividend
        IN  /\ calc.result.longTerm \in 0..100
            /\ calc.result.shortTerm \in 0..100
            /\ calc.result.dividend \in 0..100
            /\ calc.result.overall = IF reported >= 210 THEN "BUY"
                                     ELSE IF reported <= 120 THEN "SELL"
                                     ELSE "HOLD"

\* the optional numeric fields of the stock detail under recommendation
Absent(field) == calc.stockData[field] = <<>>
Value(field) == calc.stockData[field][1]

\* C24: a rule is skipped exactly when its numeric field is absent; whenever
\* the field is present and its condition holds the adjustment is applied,
\* also for a present value of 0: debtToEquity = 0 is < 0.5 and adds 1 to
\* longTerm.
C24_SkippedOnlyWhenAbsent ==
    Recommended =>
        LET rules == AfterRules(calc.stockData, RuleCount)
            longTermPoints ==
                (IF ~Absent("peRatio") /\ Value("peRatio") < 150 THEN 10 ELSE 0)
                    + (IF ~Absent("roe") /\ Value("roe") > 150 THEN 10 ELSE 0)
                    + (IF ~Absent("debtToEquity") /\ Value("debtToEquity") < 5
                       THEN 10 ELSE 0)
                    + (IF ~Absent("currentRatio") /\ Value("currentRatio") > 15
                       THEN 10 ELSE 0)
                    + (IF ~Absent("grossMargin") /\ Value("grossMargin") > 300
                       THEN 10 ELSE 0)
            shortTermPoints ==
                (IF ~Absent("changePercent") /\ Value("changePercent") > 50
                 THEN 20 ELSE 0)
                    - (IF ~Absent("changePercent") /\ Value("changePercent") < -50
                       THEN 20 ELSE 0)
                    + (IF calc.stockData.momentum = "BULLISH" THEN 10 ELSE 0)
                    + (IF ~Absent("volume") /\ ~Absent("avgVolume")
                            /\ 2 * Value("volume") > 3 * Value("avgVolume")
                       THEN 10 ELSE 0)
            dividendScore ==
                IF Absent("dividend") THEN 0
                ELSE IF 2 * Value("dividend") < 100 THEN 2 * Value("dividend") ELSE 100
        IN  /\ rules.longTerm = 50 + longTermPoints
            /\ rules.shortTerm = 50 + shortTermPoints
            /\ rules.dividend = dividendScore

\* every optional metric of the stock detail is absent
NothingKnown ==
    /\ \A field \in {"peRatio", "roe", "debtToEquity", "currentRatio", "grossMargin",
                       "changePercent", "volume", "avgVolume", "dividend"} :
           Absent(field)
    /\ calc.stockData.momentum = ""

\* C30: for a stock detail in which every optional metric is absent the
\* recommendation is longTerm 5, shortTerm 5, dividend 0, no reasons and
\* SELL (the average 10/3 is <= 4); and overall is BUY only if longTerm +
\* shortTerm + dividend is at least 21 before clamping.
C30_DefaultIsSell ==
    Recommended =>
        /\ NothingKnown =>
               calc.result = [longTerm |-> 50, shortTerm |-> 50, dividend |-> 0,
                              overall |-> "SELL", reasons |-> <<>>]
        /\ calc.result.overall = "BUY" =>
               LET rules == AfterRules(calc.stockData, RuleCount)
               IN  rules.longTerm + rules.shortTerm + rules.dividend >= 210

\* the recommendation for a stock detail without any optional metric
C30_Witness ==
    /\ Recommended
    /\ NothingKnown
    /\ calc.result.overall = "SELL"
    /\ calc.result.reasons = <<>>

----------------------------------------------------------------------------
(* Properties of the portfolio handlers, checked under SpecDoc *)

\* the entries of a portfolio array for one symbol
EntriesFor(portfolio, symbol) == SelectSeq(portfolio, LAMBDA item : item.symbol = symbol)

AtMostOnePerSymbol(portfolio) ==
    \A j, k \in 1..Len(portfolio) : j # k => portfolio[j].symbol # portfolio[k].symbol

\* what a step of handler o may do to the stored portfolio
HandlerStepKeepsOnePerSymbol(o) ==
    LET op == userDoc.ops[o]
        after == userDoc'.ops[o]
    IN  /\ (op.pc = "writing" /\ after.pc = "done" /\ after.wrote /\ op.kind = "add") =>
               /\ Len(EntriesFor(userDoc'.portfolio, op.symbol)) = 1
               /\ userDoc'.portfolio[Len(userDoc'.portfolio)]
                      = ObjectEntry(op.symbol, op.shares, op.avgPrice, Today)
        /\ (op.pc = "writing" /\ after.pc = "done" /\ after.wrote /\ op.kind = "remove") =>
               Len(EntriesFor(userDoc'.portfolio, op.symbol)) = 0
        /\ (op.pc = "idle" /\ after.pc = "done") =>
               userDoc'.portfolio = userDoc.portfolio
        /\ (op.pc = "done") => after = op

\* C25: starting from a stored portfolio with at most one entry per symbol,
\* after any sequence and interleaving of add/update and remove operations
\* the stored portfolio still has at most one entry per symbol: a write of
\* add/update leaves exactly the new entry for its symbol, a write of remove
\* leaves none, and a handler that returns at once (negative shares or
\* price among the reasons) writes nothing, now or later.
C25_OneEntryPerSymbol ==
    /\ [](AtMostOnePerSymbol(userDoc.portfolio))
    /\ [][\A o \in OpSlots : HandlerStepKeepsOnePerSymbol(o)]_vars

\* an add/update has replaced the entry stored for its symbol, next to the
\* other symbol's entry, while an add with a negative number was rejected
C25_Witness ==
    /\ userDoc.ops["o1"].pc = "done"
    /\ userDoc.ops["o1"].wrote
    /\ userDoc.ops["o1"].kind = "add"
    /\ Len(EntriesFor(userDoc.ops["o1"].snapshot, userDoc.ops["o1"].symbol)) = 1
    /\ Len(userDoc.portfolio) = 2
    /\ Len(EntriesFor(userDoc.portfolio, userDoc.ops["o1"].symbol)) = 1
    /\ userDoc.ops["o2"].pc = "done"
    /\ userDoc.ops["o2"].message = "Shares and price cannot be negative"

\* handlers a and b both wrote, on different symbols, and both had read the
\* document before either write was applied; a's write came first
BothReadBeforeEitherWrote(a, b) ==
    /\ userDoc.ops[a].pc = "done" /\ userDoc.ops[a].wrote
    /\ userDoc.ops[b].pc = "done" /\ userDoc.ops[b].wrote
    /\ userDoc.ops[a].symbol # userDoc.ops[b].symbol
    /\ userDoc.ops[a].readAt < userDoc.ops[a].wroteAt
    /\ userDoc.ops[b].readAt < userDoc.ops[a].wroteAt
    /\ userDoc.ops[a].wroteAt < userDoc.ops[b].wroteAt

\* C29: add/update and remove read the portfolio and later replace it as a
\* whole: when two operations on different symbols both read before either
\* writes, the stored portfolio after both is exactly the array of the later
\* write, and the earlier operation's change is lost: its symbol is stored
\* as it was before the two operations.
C29_LostUpdate ==
    \A a, b \in OpSlots :
        BothReadBeforeEitherWrote(a, b) =>
            /\ userDoc.ops[b].snapshot = userDoc.ops[a].snapshot
            /\ userDoc.portfolio = userDoc.ops[b].written
            /\ EntriesFor(userDoc.portfolio, userDoc.ops[a].symbol)
                   = EntriesFor(userDoc.ops[a].snapshot, userDoc.ops[a].symbol)

\* two adds of different symbols to an empty portfolio, both read before
\* either wrote: only the entry of the later write is stored
C29_Witness ==
    /\ BothReadBeforeEitherWrote("o1", "o2")
    /\ userDoc.ops["o1"].kind = "add"
    /\ userDoc.ops["o2"].kind = "add"
    /\ userDoc.ops["o1"].snapshot = <<>>
    /\ Len(userDoc.portfolio) = 1
    /\ userDoc.portfolio[1].symbol = userDoc.ops["o2"].symbol

----------------------------------------------------------------------------
(* Properties of the stock page, checked under SpecPage *)

\* the load issued for the symbol now viewed (0: none)
CurrentLoad == IF page.symbol = "" THEN 0 ELSE Len(page.loads)

\* C26: after the viewed symbol changed while a load for the previous symbol
\* was in flight, the displayed stock detail, analysis and error are never
\* set from the result of that load: whatever is displayed was set by the
\* load issued for the symbol now viewed (or by the effects themselves).
C26_StaleLoadDiscarded ==
    page.symbol # "" =>
        /\ page.stockDetails # <<>> => page.stockDetails[1].load = CurrentLoad
        /\ page.analysis # <<>> => page.analysis[1].load = CurrentLoad
        /\ page.error # <<>> => page.error[1].load \in {0, CurrentLoad}

----------------------------------------------------------------------------
(* Order of the rate check and the cache check, checked under SpecRate *)

\* C27: the rate check precedes the cache check: a call served from the
\* cache has recorded its timestamp in the endpoint's window like any
\* admitted call, and a call for a URL whose value is cached and unexpired
\* fails with RateLimited, unserved, when the window already holds 30
\* timestamps.
C27_RateCheckBeforeCache ==
    \A c \in DOMAIN calls :
        LET k == calls[c]
        IN  /\ k.hit =>
                   /\ k.hadFresh
                   /\ k.logged = 1
                   /\ k.seen < 30
                   /\ k.netCalls = 0
            /\ (k.pc # "idle" /\ k.hadFresh /\ k.seen >= 30) =>
                   /\ k.pc = "thrown"
                   /\ k.lastError = RateLimitedErr
                   /\ ~k.hit
                   /\ k.netCalls = 0

\* the window holds 30 admissions, all for AAPL and all made at time 0, and
\* the next call for AAPL, whose value is cached and unexpired, is rejected
C27_Witness ==
    \E c \in DOMAIN calls :
        /\ calls[c].pc = "thrown"
        /\ calls[c].lastError = RateLimitedErr
        /\ calls[c].url = QuoteA
        /\ calls[c].hadFresh
        /\ calls[c].seen = 30
        /\ QuoteB \notin DOMAIN cache
        /\ now = 0

----------------------------------------------------------------------------
(* Overlapping calls for one URL, checked under SpecOverlap *)

\* the call is suspended at a fetch or at a backoff delay
InFlight(c) == calls[c].pc \in {"fetching", "backoff"}

\* while both calls for the URL are suspended, each has recorded its own
\* timestamp and issued its own fetches
EachCallOnItsOwn ==
    \A c, d \in DOMAIN calls :
        (c # d /\ InFlight(c) /\ InFlight(d) /\ calls[c].url = calls[d].url) =>
            /\ calls[c].logged = 1 /\ calls[d].logged = 1
            /\ ~calls[c].hit /\ ~calls[d].hit
            /\ calls[c].netCalls = calls[c].attempt + 1
            /\ calls[d].netCalls = calls[d].attempt + 1
            /\ Len(LogOf(requestLog, calls[c].url.path)) >= 2

\* a call made for the URL of a suspended call, its value not cached, starts
\* a fetch of its own and leaves the suspended call as it is
SecondCallFetches(c, d) ==
    (c # d /\ InFlight(c) /\ calls[d].pc = "idle" /\ calls'[d].pc # "idle"
          /\ calls'[d].url = calls[c].url) =>
        /\ calls'[d].pc = "fetching"
        /\ calls'[d].netCalls = 1
        /\ calls'[d].logged = 1
        /\ calls'[c] = calls[c]
        /\ Len(LogOf(requestLog', calls[c].url.path))
               = Len(LogOf(requestLog, calls[c].url.path)) + 1

\* a call that completes with a response leaves its own body in the cache,
\* whatever the other call stored before
CompletionOverwrites(c) ==
    (calls[c].pc = "fetching" /\ calls'[c].pc = "returned") =>
        /\ calls'[c].url \in DOMAIN cache'
        /\ cache'[calls'[c].url].data = calls'[c].result
        /\ cache'[calls'[c].url].timestamp = now

\* C28: fetchWithRetry does not coalesce requests in flight: of two calls
\* for the same uncached URL started before either completes, each takes a
\* slot of the rate window and performs its own network fetch and its own
\* retries, and the cache entry left for the URL is the one written by the
\* call that completes last.
C28_NoCoalescing ==
    /\ []EachCallOnItsOwn
    /\ [][/\ \A c, d \in DOMAIN calls : SecondCallFetches(c, d)
          /\ \A c \in DOMAIN calls : CompletionOverwrites(c)]_vars

\* both calls fetched and got different bodies; the first retried once; the
\* cache holds the body of the second
C28_Witness ==
    /\ calls["c1"].pc = "returned" /\ calls["c2"].pc = "returned"
    /\ calls["c1"].outcomes = <<500, 200>>
    /\ calls["c2"].outcomes = <<200>>
    /\ calls["c1"].result = "{v1}"
    /\ calls["c2"].result = "{v2}"
    /\ cache[QuoteA].data = "{v2}"
    /\ Len(requestLog[QuoteA.path]) = 2

====
